---- MODULE Spec2Model ----
(***************************************************************************)
(* A model of paradime's orchestration layer (paradime/dr.py): the         *)
(* Dataset, DerivedDatasetEntry and TrainingPhase objects and the          *)
(* ParametricDR lifecycle (register_dataset, add_to_dataset,               *)
(* compute_derived_data, compute_global_relations, run_training_phase,     *)
(* train, apply).  Tensors are represented by their number of rows; a      *)
(* Python dict whose iteration order matters is a sequence of [k, e]       *)
(* records with pairwise distinct keys; an exception is the string naming  *)
(* its class, and "ok" stands for a normal return.                         *)
(***************************************************************************)
EXTENDS Integers, Sequences, FiniteSets, TLC

\* Largest number of rows of an array handed to the orchestrator.
MaxLen == 1

VARIABLES
    dataset_registered,          \* ParametricDR._dataset_registered
    data,                        \* ParametricDR._dataset.data: key -> number of rows
    derived_entries,             \* ParametricDR._dataset._derived_entries (ordered)
    global_relation_data,        \* ParametricDR.global_relation_data: key -> RelationData
    global_relations_computed,   \* ParametricDR._global_relations_computed
    trained,                     \* ParametricDR.trained
    training_phases,             \* ParametricDR.training_phases
    model_training,              \* ParametricDR.model.training (train()/eval() mode)
    use_cuda,                    \* ParametricDR.use_cuda
    pc,                          \* position inside a running train()/run_training_phase()
    frame,                       \* locals of the running train()/run_training_phase()
    last,                        \* the call made last and how it ended
    log,                         \* the steps the current or latest train() call performed
    batch_done,                  \* some batch of some phase has completed
    train_batch_done,            \* some batch has completed inside a train() call
    tp,                          \* a TrainingPhase object handled on its own
    tp_bound,                    \* some _determine_loss call on tp has succeeded
    objects,                     \* address -> the TrainingPhase object that lives there
    instances,                   \* the ParametricDR instances: training_defaults
                                 \* (an address) and training_phases of each
    edge_dataset,                \* the NegSampledEdgeDataset of a loader
    raw_batch,                   \* the items the loader has fetched for a batch
    collated_batch               \* what _collate_edge_batch made of raw_batch

vars == <<dataset_registered, data, derived_entries, global_relation_data,
          global_relations_computed, trained, training_phases, model_training,
          use_cuda, pc, frame, last, log, batch_done, train_batch_done, tp, tp_bound, objects, instances,
          edge_dataset, raw_batch, collated_batch>>

edge_vars == <<edge_dataset, raw_batch, collated_batch>>

orch_vars == <<dataset_registered, data, derived_entries, global_relation_data,
               global_relations_computed, trained, training_phases,
               model_training, use_cuda>>

-----------------------------------------------------------------------------
(* Python dicts *)

EmptyDict == << >>

DictHas(d, k) == \E i \in 1..Len(d) : d[i].k = k

DictGet(d, k) == d[CHOOSE i \in 1..Len(d) : d[i].k = k].e

\* d[k] = e: an existing key keeps its place, a new key goes last.
DictSet(d, k, e) ==
    IF DictHas(d, k)
    THEN [i \in 1..Len(d) |-> IF d[i].k = k THEN [k |-> k, e |-> e] ELSE d[i]]
    ELSE Append(d, [k |-> k, e |-> e])

DictKeys(d) == [i \in 1..Len(d) |-> d[i].k]

\* A key -> rows mapping with one entry written.
Put(f, k, v) == (k :> v) @@ f

-----------------------------------------------------------------------------
(* DerivedDatasetEntry *)

NoEntry == [type_key_tuples |-> << >>, requires_relations |-> FALSE, kwargs |-> {}]

RECURSIVE ScanTypes(_, _, _)
ScanTypes(tkt, i, req) ==
    IF i > Len(tkt) THEN [err |-> "ok", requires_relations |-> req]
    ELSE IF tkt[i][1] = "data" THEN ScanTypes(tkt, i + 1, req)
    ELSE IF tkt[i][1] = "rel" THEN ScanTypes(tkt, i + 1, TRUE)
    ELSE [err |-> "ValueError", requires_relations |-> req]

\* DerivedDatasetEntry looking at the first source only.
DerivedDatasetEntry_first_source(type_key_tuples, kwargs) ==
    IF type_key_tuples = << >>
    THEN [err |-> "ValueError", e |-> NoEntry]
    ELSE LET s == ScanTypes(type_key_tuples, 1, FALSE)
         IN  [err |-> s.err,
              e   |-> IF s.err = "ok"
                      THEN [type_key_tuples    |-> type_key_tuples,
                            requires_relations |-> type_key_tuples[1][1] = "rel",
                            kwargs             |-> kwargs]
                      ELSE NoEntry]

\* DerivedDatasetEntry(func, type_key_tuples, **kwargs); the functions are the
\* row-preserving ones the module ships (_pca, _spectral).
DerivedDatasetEntry(type_key_tuples, kwargs) ==
    IF type_key_tuples = << >>
    THEN [err |-> "ValueError", e |-> NoEntry]
    ELSE LET s == ScanTypes(type_key_tuples, 1, FALSE)
         IN  [err |-> s.err,
              e   |-> IF s.err = "ok"
                      THEN [type_key_tuples    |-> type_key_tuples,
                            requires_relations |-> s.requires_relations,
                            kwargs             |-> kwargs]
                      ELSE NoEntry]

-----------------------------------------------------------------------------
(* Values a caller puts into a dataset dict *)

Array(n)   == [t |-> "array",   len |-> n, e |-> NoEntry]
Derived(e) == [t |-> "derived", len |-> 0, e |-> e]
Other      == [t |-> "other",   len |-> 0, e |-> NoEntry]

Item(k, v) == [k |-> k, e |-> v]

-----------------------------------------------------------------------------
(* Dataset *)

NoData == << >>

RECURSIVE dataset_init_loop(_, _, _, _)
dataset_init_loop(d, i, dat, der) ==
    IF i > Len(d) THEN [err |-> "ok", data |-> dat, derived |-> der]
    ELSE LET k == d[i].k
             val == d[i].e
         IN  IF val.t # "array"
             THEN IF val.t = "derived"
                  THEN dataset_init_loop(d, i + 1, dat, DictSet(der, k, val.e))
                  ELSE [err |-> "ValueError", data |-> dat, derived |-> der]
             ELSE IF DictGet(d, "data").t # "array"
             THEN [err |-> "TypeError", data |-> dat, derived |-> der]
             ELSE IF val.len # DictGet(d, "data").len
             THEN [err |-> "ValueError", data |-> dat, derived |-> der]
             ELSE dataset_init_loop(d, i + 1, Put(dat, k, val.len), der)

\* Dataset(data): data is [kind |-> "array", len |-> n], [kind |-> "dict",
\* items |-> ...] or anything else.
Dataset(d) ==
    LET fail(e) == [err |-> e, data |-> NoData, derived |-> EmptyDict]
        items == IF d.kind = "array" THEN << Item("data", Array(d.len)) >> ELSE d.items
    IN  IF d.kind \notin {"array", "dict"} THEN fail("ValueError")
        ELSE IF d.kind = "dict" /\ ~DictHas(items, "data") THEN fail("AttributeError")
        ELSE LET r == dataset_init_loop(items, 1, NoData, EmptyDict)
             IN  IF r.err # "ok" THEN fail(r.err)
                 ELSE IF "indices" \in DOMAIN r.data THEN r
                 ELSE IF "data" \notin DOMAIN r.data THEN fail("KeyError")
                 ELSE [r EXCEPT !.data = Put(r.data, "indices", r.data["data"])]

ArrayInput(n) == [kind |-> "array", len |-> n, items |-> EmptyDict]
DictInput(items) == [kind |-> "dict", len |-> 0, items |-> items]
OtherInput == [kind |-> "other", len |-> 0, items |-> EmptyDict]

-----------------------------------------------------------------------------
(* Relations *)

\* The RelationData a Relations object computes from a column of n rows: a
\* pairwise structure over those n rows.
RelationData(n) == [n |-> n]

\* ParametricDR.global_relations: name -> the data_key of the Relations object.
GlobalRelations == << [k |-> "rel", e |-> "data"], [k |-> "aux", e |-> "pca"] >>

-----------------------------------------------------------------------------
(* ParametricDR: dataset operations.  Each operator maps the fields the     *)
(* method reads to the fields it leaves behind and the way it ends.         *)

\* register_dataset(dataset)
register_dataset(dat, der, reg, d) ==
    LET r == Dataset(d)
    IN  IF r.err # "ok"
        THEN [err |-> r.err, data |-> dat, derived |-> der, registered |-> reg]
        ELSE [err |-> "ok", data |-> r.data, derived |-> r.derived, registered |-> TRUE]

RECURSIVE add_to_dataset_loop(_, _, _, _)
add_to_dataset_loop(items, i, dat, der) ==
    IF i > Len(items) THEN [err |-> "ok", data |-> dat, derived |-> der]
    ELSE LET k == items[i].k
             val == items[i].e
         IN  IF val.t = "derived"
             THEN add_to_dataset_loop(items, i + 1, dat, DictSet(der, k, val.e))
             ELSE IF val.t = "array"
             THEN add_to_dataset_loop(items, i + 1, Put(dat, k, val.len), der)
             ELSE [err |-> "ValueError", data |-> dat, derived |-> der]

\* add_to_dataset(data)
add_to_dataset(reg, dat, der, items) ==
    IF ~reg
    THEN [err |-> "NoDatasetRegisteredError", data |-> dat, derived |-> der]
    ELSE add_to_dataset_loop(items, 1, dat, der)

\* selector[i][j] for every (i, j) of the entry is defined.
SourcesPresent(tkt, dat, grd) ==
    \A i \in 1..Len(tkt) :
        IF tkt[i][1] = "data" THEN tkt[i][2] \in DOMAIN dat
                              ELSE tkt[i][2] \in DOMAIN grd

\* Rows of entry.func(*args, **entry.kwargs): as many as its first argument has.
FuncRows(tkt, dat, grd) ==
    IF tkt[1][1] = "data" THEN dat[tkt[1][2]] ELSE grd[tkt[1][2]].n

\* The loop of compute_derived_data over the dict object obj it started on.
\* The entries' kwargs are written in place (out_dim); live says whether
\* self.dataset._derived_entries still is obj or has been rebound to {}.
RECURSIVE compute_derived_loop(_, _, _, _, _, _, _, _, _)
compute_derived_loop(obj, i, live, reg, dat, comp, grd, keep, done) ==
    LET cur(o) == IF live THEN o ELSE EmptyDict
    IN  IF i > Len(obj)
        THEN [err |-> "ok", data |-> dat, derived |-> cur(obj), done |-> done]
        ELSE LET k == obj[i].k
                 entry == obj[i].e
             IN  IF entry.requires_relations /\ ~comp
                 THEN [err |-> "RelationsNotComputedError", data |-> dat,
                       derived |-> cur(obj), done |-> done]
                 ELSE LET obj2 == [obj EXCEPT ![i].e.kwargs = @ \cup {"out_dim"}]
                      IN  IF ~SourcesPresent(entry.type_key_tuples, dat, grd)
                          THEN [err |-> "KeyError", data |-> dat,
                                derived |-> cur(obj2), done |-> done]
                          ELSE LET rows == FuncRows(entry.type_key_tuples, dat, grd)
                                   r == add_to_dataset(reg, dat, cur(obj2),
                                                       << Item(k, Array(rows)) >>)
                               IN  compute_derived_loop(obj2, i + 1, live /\ keep, reg,
                                                        r.data, comp, grd, keep,
                                                        Append(done, k))

\* compute_derived_data whose loop ends once the definitions are cleared.
compute_derived_data_until_cleared(reg, dat, der, comp, grd, keep) ==
    IF ~reg
    THEN [err |-> "NoDatasetRegisteredError", data |-> dat, derived |-> der,
          done |-> << >>]
    ELSE compute_derived_loop(IF keep \/ der = << >> THEN der ELSE << der[1] >>, 1,
                              TRUE, reg, dat, comp, grd, keep, << >>)

\* compute_derived_data(keep_definitions)
compute_derived_data(reg, dat, der, comp, grd, keep) ==
    IF ~reg
    THEN [err |-> "NoDatasetRegisteredError", data |-> dat, derived |-> der,
          done |-> << >>]
    ELSE compute_derived_loop(der, 1, TRUE, reg, dat, comp, grd, keep, << >>)

RECURSIVE compute_relations_loop(_, _, _, _, _)
compute_relations_loop(rels, i, dat, grd, done) ==
    IF i > Len(rels) THEN [err |-> "ok", grd |-> grd, done |-> done]
    ELSE IF rels[i].e \notin DOMAIN dat
    THEN [err |-> "KeyError", grd |-> grd, done |-> done]
    ELSE compute_relations_loop(rels, i + 1, dat,
                                Put(grd, rels[i].k, RelationData(dat[rels[i].e])),
                                Append(done, rels[i].k))

\* A test that ignores the computed flag.
MustCompute_always(force, comp) == TRUE

\* The test of compute_global_relations that decides whether to compute.
MustCompute(force, comp) == force \/ ~comp

\* compute_global_relations(force)
compute_global_relations(reg, dat, grd, comp, force) ==
    IF ~reg
    THEN [err |-> "NoDatasetRegisteredError", grd |-> grd, computed |-> comp,
          done |-> << >>]
    ELSE IF MustCompute(force, comp)
    THEN LET r == compute_relations_loop(GlobalRelations, 1, dat, grd, << >>)
         IN  [err |-> r.err, grd |-> r.grd,
              computed |-> IF r.err = "ok" THEN TRUE ELSE comp, done |-> r.done]
    ELSE [err |-> "ok", grd |-> grd, computed |-> TRUE, done |-> << >>]

-----------------------------------------------------------------------------
(* Losses *)

\* A loss is an object: id is its identity (0: no object), the other fields
\* are its attributes.
NoLoss == [id |-> 0, cls |-> "None", name |-> "", batch_key |-> "", losses |-> << >>,
           weights |-> << >>]

\* A RelationLoss, ClassificationLoss, PositionLoss or ReconstructionLoss.
Loss(cls, name, batch_key) ==
    [id |-> 0, cls |-> cls, name |-> name, batch_key |-> batch_key,
     losses |-> << >>, weights |-> << >>]

\* The object created at address id.
At(loss, id) == [loss EXCEPT !.id = id]

\* The identities of a loss and of the losses it holds.
LossIds(loss) ==
    IF loss.id = 0 THEN {}
    ELSE {loss.id} \cup { loss.losses[i].id : i \in 1..Len(loss.losses) }

\* A copy that is the object itself.
deepcopy_alias(loss, fresh) == loss

\* copy.deepcopy(loss) with the copy, and the copies of the losses it holds,
\* created at the addresses from fresh on.
deepcopy(loss, fresh) ==
    [loss EXCEPT !.id = fresh,
                 !.losses = [i \in 1..Len(loss.losses) |->
                                At(loss.losses[i], fresh + i)]]

\* How many objects deepcopy(loss) creates.
Size(loss) == 1 + Len(loss.losses)

Ones(n) == [i \in 1..n |-> 1]

Highest(S) == CHOOSE x \in S : \A y \in S : y <= x

\* An argument that may be None: NoWeights is None, Weights(w) the list w.
NoWeights == [none |-> TRUE, w |-> << >>]
Weights(w) == [none |-> FALSE, w |-> w]

\* CompoundLoss.__init__ taking the weights as they are given.
CompoundLoss_unchecked(losses, weights, name) ==
    [err |-> "ok",
     loss |-> [id |-> 0, cls |-> "CompoundLoss",
               name |-> IF name = "None" THEN "comp_loss#" ELSE name,
               batch_key |-> "", losses |-> losses, weights |-> weights.w]]

\* CompoundLoss(losses, weights, name); name "None" is the absent name, for which
\* Loss.__init__ makes one up from the class prefix.
CompoundLoss(losses, weights, name) ==
    IF ~weights.none /\ Len(weights.w) # Len(losses)
    THEN [err |-> "ValueError", loss |-> NoLoss]
    ELSE [err |-> "ok",
          loss |-> [id |-> 0, cls |-> "CompoundLoss",
                    name |-> IF name = "None" THEN "comp_loss#" ELSE name,
                    batch_key |-> "", losses |-> losses,
                    weights |-> IF weights.none THEN Ones(Len(losses))
                                ELSE weights.w]]

RECURSIVE forward_loop(_, _, _, _, _)
\* The loop of CompoundLoss.forward over zip(self.losses, self.weights), from
\* pair number i on; value: what each child returns for the batch, by name.
forward_loop(loss, value, i, total_loss, calls) ==
    IF i > Len(loss.losses) \/ i > Len(loss.weights)
    THEN [total_loss |-> total_loss, calls |-> calls]
    ELSE forward_loop(loss, value, i + 1,
                      total_loss + loss.weights[i] * value[loss.losses[i].name],
                      Append(calls, i))

\* CompoundLoss.forward(model, hd_relations, ld_relations, batch); calls: the
\* children called, by position, in the order of the calls.
forward(loss, value) == forward_loop(loss, value, 1, 0, << >>)

-----------------------------------------------------------------------------
(* TrainingPhase *)

Samplings == {"standard", "negative_edge"}
Optimizers == {"Adam", "SGD"}

\* The arguments of TrainingPhase(...) with their defaults.
PhaseDefaults ==
    [name |-> "None", epochs |-> 5, batch_size |-> 50, batches_per_epoch |-> -1,
     sampling |-> "standard", edge_rel_key |-> "rel", neg_sampling_rate |-> 5,
     loss_keys |-> << "loss" >>, loss_weights |-> NoWeights, optimizer |-> "Adam",
     report_interval |-> 5]

\* TrainingPhase(**a).  has_loss_weights: the object has a loss_weights attribute.
TrainingPhase(a) ==
    LET fail == [err |-> "ValueError",
                 tp |-> [a EXCEPT !.loss_weights = << >>] @@
                        [has_loss_weights |-> FALSE, loss |-> NoLoss]]
    IN  IF a.sampling \notin Samplings THEN fail
        ELSE IF a.loss_keys = << >> THEN fail
        ELSE IF a.optimizer \notin Optimizers THEN fail
        ELSE [err |-> "ok",
              tp  |-> [a EXCEPT !.loss_weights =
                                   IF a.loss_weights.none
                                   THEN Ones(Len(a.loss_keys)) ELSE << >>] @@
                      [has_loss_weights |-> a.loss_weights.none, loss |-> NoLoss]]

\* The loss property of a TrainingPhase.
loss_get(phase) ==
    IF phase.loss = NoLoss
    THEN [err |-> "LossNotDeterminedError", loss |-> NoLoss]
    ELSE [err |-> "ok", loss |-> phase.loss]

\* _determine_loss binding the first loss it finds before looking for the rest.
determine_loss_eager(phase, loss_dict, fresh) ==
    LET keys == phase.loss_keys
        first == deepcopy(loss_dict[keys[1]], fresh)
    IN  IF keys[1] \notin DOMAIN loss_dict THEN [err |-> "KeyError", tp |-> phase]
        ELSE IF \E i \in 1..Len(keys) : keys[i] \notin DOMAIN loss_dict
        THEN [err |-> "KeyError", tp |-> [phase EXCEPT !.loss = first]]
        ELSE [err |-> "ok", tp |-> [phase EXCEPT !.loss = first]]

\* Where the allocator puts n new objects while the objects of used are alive:
\* the lowest run of n free addresses.
Allocate(used, n) ==
    LET fits(a) == \A j \in 0..(n - 1) : (a + j) \notin used
        top == Highest(used \cup {0}) + 1
    IN  CHOOSE a \in 1..top : fits(a) /\ \A b \in 1..(a - 1) : ~fits(b)

\* How many objects _determine_loss creates at most: the copies and the
\* CompoundLoss.
RECURSIVE Need(_, _, _)
Need(keys, loss_dict, i) ==
    IF i > Len(keys) THEN 1
    ELSE Need(keys, loss_dict, i + 1)
         + (IF keys[i] \in DOMAIN loss_dict THEN Size(loss_dict[keys[i]]) ELSE 0)

\* The identities of the objects a mapping of losses holds.
DictIds(loss_dict) == UNION { LossIds(loss_dict[k]) : k \in DOMAIN loss_dict }

\* The address of the i-th copy made by _determine_loss, the copies before it
\* taking the addresses from fresh on.
RECURSIVE CopyAddress(_, _, _, _)
CopyAddress(keys, loss_dict, i, fresh) ==
    IF i = 1 THEN fresh
    ELSE CopyAddress(keys, loss_dict, i - 1, fresh) + Size(loss_dict[keys[i - 1]])

\* TrainingPhase._determine_loss(loss_dict); loss_dict is a key -> Loss function,
\* fresh the first address at which no object lives.
determine_loss(phase, loss_dict, fresh) ==
    LET keys == phase.loss_keys
        fail(e) == [err |-> e, tp |-> phase]
    IN  IF Len(keys) = 1
        THEN IF keys[1] \notin DOMAIN loss_dict THEN fail("KeyError")
             ELSE [err |-> "ok",
                   tp |-> [phase EXCEPT !.loss = deepcopy(loss_dict[keys[1]], fresh)]]
        ELSE IF \E i \in 1..Len(keys) : keys[i] \notin DOMAIN loss_dict
        THEN fail("KeyError")
        ELSE IF ~phase.has_loss_weights THEN fail("AttributeError")
        ELSE LET losses == [i \in 1..Len(keys) |->
                               deepcopy(loss_dict[keys[i]],
                                        CopyAddress(keys, loss_dict, i, fresh))]
                 c == CompoundLoss(losses, Weights(phase.loss_weights), phase.name)
             IN  IF c.err # "ok" THEN fail(c.err)
                 ELSE [err |-> "ok",
                       tp |-> [phase EXCEPT !.loss =
                                 At(c.loss, CopyAddress(keys, loss_dict,
                                                        Len(keys) + 1, fresh))]]

-----------------------------------------------------------------------------
(* ParametricDR: configuration given at construction *)

\* self.losses
Losses == ("loss" :> At(Loss("RelationLoss", "rel_loss", "rel"), 1)) @@
          ("pos"  :> At(Loss("PositionLoss", "pos_loss", ""), 2))

\* self.batch_relations: name -> class of the Relations object.
BatchRelations == ("rel" :> "DifferentiablePDist")

\* Loss._check_sampling_and_relations(sampling, batch_relations) of a
\* RelationLoss, and of every RelationLoss child of a CompoundLoss.
RECURSIVE check_sampling_and_relations(_, _, _)
check_sampling_and_relations(loss, sampling, batch_relations) ==
    IF loss.cls = "CompoundLoss"
    THEN IF \E i \in 1..Len(loss.losses) :
                check_sampling_and_relations(loss.losses[i], sampling,
                                             batch_relations) # "ok"
         THEN "UnsupportedConfigurationError" ELSE "ok"
    ELSE IF loss.cls # "RelationLoss" THEN "ok"
    ELSE IF loss.batch_key \notin DOMAIN batch_relations THEN "KeyError"
    ELSE IF (sampling = "negative_edge") # (batch_relations[loss.batch_key] = "DistsFromTo")
    THEN "UnsupportedConfigurationError"
    ELSE "ok"

\* add_training_phase appending the phase as soon as its loss is bound.
add_training_phase_append_first(phases, phase, losses, batch_relations) ==
    LET used == DictIds(losses) \cup LossIds(phase.loss)
                \cup UNION { LossIds(phases[i].loss) : i \in 1..Len(phases) }
        r == determine_loss(phase, losses,
                            Allocate(used, Need(phase.loss_keys, losses, 1)))
    IN  IF r.err # "ok" THEN [err |-> r.err, phases |-> phases]
        ELSE LET c == IF r.tp.loss.cls \in {"RelationLoss", "CompoundLoss"}
                      THEN check_sampling_and_relations(r.tp.loss, r.tp.sampling,
                                                        batch_relations)
                      ELSE "ok"
             IN  [err |-> c, phases |-> Append(phases, r.tp)]

\* add_training_phase(training_phase=phase): bind, validate, append.
add_training_phase(phases, phase, losses, batch_relations) ==
    LET used == DictIds(losses) \cup LossIds(phase.loss)
                \cup UNION { LossIds(phases[i].loss) : i \in 1..Len(phases) }
        r == determine_loss(phase, losses,
                            Allocate(used, Need(phase.loss_keys, losses, 1)))
    IN  IF r.err # "ok" THEN [err |-> r.err, phases |-> phases]
        ELSE LET c == IF r.tp.loss.cls \in {"RelationLoss", "CompoundLoss"}
                      THEN check_sampling_and_relations(r.tp.loss, r.tp.sampling,
                                                        batch_relations)
                      ELSE "ok"
             IN  IF c # "ok" THEN [err |-> c, phases |-> phases]
                 ELSE [err |-> "ok", phases |-> Append(phases, r.tp)]

RECURSIVE add_training_phases(_, _, _)
add_training_phases(phases, i, given) ==
    IF i > Len(given) THEN phases
    ELSE add_training_phases(
             add_training_phase(phases, given[i], Losses, BatchRelations).phases,
             i + 1, given)

-----------------------------------------------------------------------------
(* ParametricDR: training defaults and phases given by keyword *)

\* An optional argument: << >> when the caller leaves it out, << v >> otherwise.
Absent == << >>
Given(v) == << v >>

\* The keyword arguments of set_training_defaults and add_training_phase.
NoArgs ==
    [training_phase |-> Absent, name |-> Absent, epochs |-> Absent,
     batch_size |-> Absent, batches_per_epoch |-> Absent, sampling |-> Absent,
     edge_rel_key |-> Absent, neg_sampling_rate |-> Absent, loss_keys |-> Absent,
     loss_weights |-> Absent, optimizer |-> Absent, report_interval |-> Absent]

\* phase.field = value for each of the common keyword arguments that is given.
Overridden(phase, a) ==
    [phase EXCEPT
       !.epochs = IF a.epochs # Absent THEN a.epochs[1] ELSE @,
       !.sampling = IF a.sampling # Absent THEN a.sampling[1] ELSE @,
       !.edge_rel_key = IF a.edge_rel_key # Absent THEN a.edge_rel_key[1] ELSE @,
       !.neg_sampling_rate =
           IF a.neg_sampling_rate # Absent THEN a.neg_sampling_rate[1] ELSE @,
       !.loss_keys = IF a.loss_keys # Absent THEN a.loss_keys[1] ELSE @,
       !.loss_weights = IF a.loss_weights # Absent THEN a.loss_weights[1] ELSE @,
       !.has_loss_weights = IF a.loss_weights # Absent THEN TRUE ELSE @,
       !.optimizer = IF a.optimizer # Absent THEN a.optimizer[1] ELSE @]

\* The value report_interval has in set_training_defaults when left out.
SetDefaultsReportInterval == 5

\* set_training_defaults(**a) on the defaults object: the object that is the
\* training defaults afterwards.  A given training_phase is deep-copied; the
\* phases handed in here carry no loss.
set_training_defaults(defaults, a) ==
    LET d0 == IF a.training_phase # Absent THEN a.training_phase[1] ELSE defaults
        d1 == IF a.batch_size # Absent
              THEN [d0 EXCEPT !.batch_size = a.batch_size[1]] ELSE d0
        d2 == IF a.batches_per_epoch # Absent
              THEN [d1 EXCEPT !.batch_size = a.batches_per_epoch[1]] ELSE d1
        report_interval == IF a.report_interval # Absent THEN a.report_interval[1]
                           ELSE SetDefaultsReportInterval
    IN  [Overridden(d2, a) EXCEPT !.report_interval = report_interval]

\* The first part of add_training_phase(**a): the given phase, or a deep copy of
\* the defaults, with the given keyword arguments written into it.
phase_from_arguments(defaults, a) ==
    LET p0 == IF a.training_phase # Absent THEN a.training_phase[1] ELSE defaults
        p1 == IF a.name # Absent THEN [p0 EXCEPT !.name = a.name[1]] ELSE p0
        p2 == IF a.batch_size # Absent
              THEN [p1 EXCEPT !.batch_size = a.batch_size[1]] ELSE p1
        p3 == IF a.batches_per_epoch # Absent
              THEN [p2 EXCEPT !.batches_per_epoch = a.batches_per_epoch[1]] ELSE p2
        p4 == IF a.report_interval # Absent
              THEN [p3 EXCEPT !.report_interval = a.report_interval[1]] ELSE p3
    IN  Overridden(p4, a)

\* The address of the TrainingPhase() made once as the default value of the
\* training_defaults argument of ParametricDR.__init__; the object an instance
\* makes for itself lives at the address that is the instance's number.
DefaultArgument == 0
Instances == {1, 2}

-----------------------------------------------------------------------------
(* Negative edge sampling.  Here a tensor is the sequence of its entries; a    *)
(* row of a dataset column is represented by one number, and Python's 0-based  *)
(* position p is position p + 1 of the sequence.                               *)

Range(x) == { x[i] : i \in 1..Len(x) }

RECURSIVE Sorted(_)
\* The members of a set of numbers in ascending order.
Sorted(S) ==
    IF S = {} THEN << >>
    ELSE LET m == CHOOSE v \in S : \A w \in S : v <= w
         IN  << m >> \o Sorted(S \ {m})

\* The position (0-based) at which v first occurs in x.
FirstIndex(x, v) ==
    (CHOOSE i \in 1..Len(x) : x[i] = v /\ \A j \in 1..(i - 1) : x[j] # v) - 1

RECURSIVE Distinct(_)
\* x without the later occurrences of a value.
Distinct(x) ==
    IF x = << >> THEN << >>
    ELSE LET init == Distinct(SubSeq(x, 1, Len(x) - 1))
         IN  IF x[Len(x)] \in Range(init) THEN init ELSE Append(init, x[Len(x)])

\* np.unique keeping the values in the order of their first occurrence.
np_unique_first_occurrence(x) ==
    LET values == Distinct(x)
    IN  [values |-> values,
         index |-> [k \in 1..Len(values) |-> FirstIndex(x, values[k])]]

\* np.unique(x, return_index=True): the sorted distinct values, and where each
\* first occurs.
np_unique(x) ==
    LET values == Sorted(Range(x))
    IN  [values |-> values,
         index |-> [k \in 1..Len(values) |-> FirstIndex(x, values[k])]]

\* x[ids]: indexing a tensor by a tensor of 0-based positions.
Gather(x, ids) == [k \in 1..Len(ids) |-> x[ids[k] + 1]]

\* The coordinate arrays of a sparse square matrix with n rows.
Coo(n, row, col) == [shape |-> n, row |-> row, col |-> col]

\* A Dataset with the columns data and indices.
Columns(dat, indices) == [data |-> dat, indices |-> indices]

\* torch.arange(n)
arange(n) == [k \in 1..n |-> k - 1]

\* No NegSampledEdgeDataset constructed yet.
NoEdgeDataset ==
    [dataset |-> Columns(<< >>, << >>), p_ij |-> Coo(0, << >>, << >>),
     neg_sampling_rate |-> 0]

\* NegSampledEdgeDataset(dataset, relations, neg_sampling_rate)
NegSampledEdgeDataset(dataset, p_ij, r) ==
    [dataset |-> dataset, p_ij |-> p_ij, neg_sampling_rate |-> r]

\* __getitem__ with no column set to the actual neighbor.
getitem_all_random(ds, idx, randint) ==
    LET n == ds.neg_sampling_rate + 1
        rows == [k \in 1..n |-> ds.p_ij.row[idx + 1]]
        cols == [k \in 1..n |-> randint[k]]
        p_simpl == [k \in 1..n |-> IF k = 1 THEN 1 ELSE 0]
        indices == np_unique(rows \o cols).values
    IN  [data |-> Gather(ds.dataset.data, indices),
         indices |-> Gather(ds.dataset.indices, indices),
         row |-> rows, col |-> cols, rel |-> p_simpl,
         from_to_data |-> << Gather(ds.dataset.data, rows),
                             Gather(ds.dataset.data, cols) >>]

\* NegSampledEdgeDataset.__getitem__(idx); randint: what torch.randint drew,
\* neg_sampling_rate + 1 numbers below p_ij.shape[0].
getitem(ds, idx, randint) ==
    LET n == ds.neg_sampling_rate + 1
        rows == [k \in 1..n |-> ds.p_ij.row[idx + 1]]
        cols == [k \in 1..n |-> IF k = 1 THEN ds.p_ij.col[idx + 1] ELSE randint[k]]
        p_simpl == [k \in 1..n |-> IF k = 1 THEN 1 ELSE 0]
        indices == np_unique(rows \o cols).values
    IN  [data |-> Gather(ds.dataset.data, indices),
         indices |-> Gather(ds.dataset.indices, indices),
         row |-> rows, col |-> cols, rel |-> p_simpl,
         from_to_data |-> << Gather(ds.dataset.data, rows),
                             Gather(ds.dataset.data, cols) >>]

\* NegSampledEdgeDataset.__len__()
edge_dataset_len(ds) == Len(ds.dataset.data)

\* len(NegSampledEdgeDataset.weights): one weight per stored value of p_ij.
NumWeights(ds) == Len(ds.p_ij.row)

\* ds[idx] for any idx >= 0: indexing p_ij.row past its end raises.
subscript(ds, idx, randint) ==
    IF idx >= Len(ds.p_ij.row)
    THEN [err |-> "IndexError", row |-> << >>, col |-> << >>]
    ELSE LET item == getitem(ds, idx, randint)
         IN  [err |-> "ok", row |-> item.row, col |-> item.col]

RECURSIVE Concat(_, _, _)
\* torch.concat([i[k] for i in raw_batch]), from item number i on.
Concat(batch, k, i) ==
    IF i > Len(batch) THEN << >> ELSE batch[i][k] \o Concat(batch, k, i + 1)

RECURSIVE ConcatDim1(_, _, _)
\* torch.concat([i["from_to_data"] for i in raw_batch], dim=1), row d.
ConcatDim1(batch, d, i) ==
    IF i > Len(batch) THEN << >>
    ELSE batch[i].from_to_data[d] \o ConcatDim1(batch, d, i + 1)

\* No batch collated yet.
NoBatch ==
    [data |-> << >>, indices |-> << >>, row |-> << >>, col |-> << >>,
     rel |-> << >>, from_to_data |-> << << >>, << >> >>]

\* _collate_edge_batch keeping every entry of the items' other fields.
collate_edge_batch_keep_all(batch) ==
    [indices |-> Concat(batch, "indices", 1),
     data |-> Concat(batch, "data", 1),
     row |-> Concat(batch, "row", 1),
     col |-> Concat(batch, "col", 1),
     rel |-> Concat(batch, "rel", 1),
     from_to_data |-> << ConcatDim1(batch, 1, 1), ConcatDim1(batch, 2, 1) >>]

\* _collate_edge_batch cutting the other fields down to their first rows.
collate_edge_batch_head(batch) ==
    LET unique_ids == np_unique(Concat(batch, "indices", 1)).index
    IN  [indices |-> Gather(Concat(batch, "indices", 1), unique_ids),
         data |-> SubSeq(Concat(batch, "data", 1), 1, Len(unique_ids)),
         row |-> Concat(batch, "row", 1),
         col |-> Concat(batch, "col", 1),
         rel |-> Concat(batch, "rel", 1),
         from_to_data |-> << ConcatDim1(batch, 1, 1), ConcatDim1(batch, 2, 1) >>]

\* _collate_edge_batch(raw_batch), raw_batch not empty.  The loop over the
\* fields of the first item also meets "indices", and gives it the entries at
\* unique_ids like any other field of the Dataset.
collate_edge_batch(batch) ==
    LET unique_ids == np_unique(Concat(batch, "indices", 1)).index
    IN  [indices |-> Gather(Concat(batch, "indices", 1), unique_ids),
         data |-> Gather(Concat(batch, "data", 1), unique_ids),
         row |-> Concat(batch, "row", 1),
         col |-> Concat(batch, "col", 1),
         rel |-> Concat(batch, "rel", 1),
         from_to_data |-> << ConcatDim1(batch, 1, 1), ConcatDim1(batch, 2, 1) >>]

-----------------------------------------------------------------------------
(* ParametricDR: training *)

CeilDiv(a, b) == (a + b - 1) \div b

Max(a, b) == IF a >= b THEN a ELSE b

\* num_edges not depending on batches_per_epoch.
NumEdges_by_items(phase, n) ==
    Max(phase.batch_size, CeilDiv(n, phase.neg_sampling_rate + 1))

\* num_edges of _prepare_loader for negative_edge sampling.
NumEdges(phase, n) ==
    IF phase.batches_per_epoch = -1
    THEN Max(phase.batch_size, CeilDiv(n, phase.neg_sampling_rate + 1))
    ELSE phase.batch_size * phase.batches_per_epoch

\* _prepare_loader without its first check.
prepare_loader_unchecked(reg, dat, comp, grd, phase) ==
    IF ~comp THEN [err |-> "RelationsNotComputedError", samples |-> 0, batches |-> 0]
    ELSE IF phase.sampling = "negative_edge"
    THEN IF phase.edge_rel_key \notin DOMAIN grd
         THEN [err |-> "KeyError", samples |-> 0, batches |-> 0]
         ELSE [err |-> "ok", samples |-> NumEdges(phase, dat["data"]),
               batches |-> CeilDiv(NumEdges(phase, dat["data"]), phase.batch_size)]
    ELSE [err |-> "ok", samples |-> dat["data"],
          batches |-> CeilDiv(dat["data"], phase.batch_size)]

\* _prepare_loader(training_phase); samples: how many items or edges the
\* sampler of the loader draws per epoch; batches: how many batches the loader
\* yields per epoch.
prepare_loader(reg, dat, comp, grd, phase) ==
    IF ~reg THEN [err |-> "NoDatasetRegisteredError", samples |-> 0, batches |-> 0]
    ELSE IF ~comp THEN [err |-> "RelationsNotComputedError", samples |-> 0, batches |-> 0]
    ELSE IF phase.sampling = "negative_edge"
    THEN IF phase.edge_rel_key \notin DOMAIN grd
         THEN [err |-> "KeyError", samples |-> 0, batches |-> 0]
         ELSE [err |-> "ok", samples |-> NumEdges(phase, dat["data"]),
               batches |-> CeilDiv(NumEdges(phase, dat["data"]), phase.batch_size)]
    ELSE [err |-> "ok", samples |-> dat["data"],
          batches |-> CeilDiv(dat["data"], phase.batch_size)]

\* The attributes of the model: callable methods, and a plain attribute.
ModelCallables == {"__call__", "embed", "classify"}
ModelAttributes == ModelCallables \cup {"training"}

\* _call_model_method_by_name(method_name, X); dev: where the result lives.
call_model_method_by_name(method, is_trained, cuda) ==
    IF method \notin ModelAttributes THEN [err |-> "AttributeError", dev |-> "none"]
    ELSE IF method \notin ModelCallables THEN [err |-> "ValueError", dev |-> "none"]
    ELSE IF is_trained THEN [err |-> "ok", dev |-> IF cuda THEN "cuda" ELSE "cpu"]
    ELSE [err |-> "NotTrainedError", dev |-> "none"]

\* apply(X, method): method "None" is the absent argument.
apply(method, is_trained, cuda) ==
    LET r == call_model_method_by_name(IF method = "None" THEN "__call__" ELSE method,
                                       is_trained, cuda)
    IN  IF r.err = "ok" THEN [err |-> "ok", dev |-> "cpu"] ELSE r

\* train() computing the global relations before the derived data.
TrainNext_relations_first(step) ==
    CASE step = "prepare_training"         -> "compute_global_relations"
      [] step = "compute_global_relations" -> "compute_derived_data"
      [] step = "compute_derived_data"     -> "model.train"
      [] step = "model.train"              -> "phases"
      [] step = "phases"                   -> "model.eval"
      [] OTHER                             -> "idle"

\* The statements of train(), each followed by the next.
TrainNext(step) ==
    CASE step = "prepare_training"         -> "compute_derived_data"
      [] step = "compute_derived_data"     -> "compute_global_relations"
      [] step = "compute_global_relations" -> "model.train"
      [] step = "model.train"              -> "phases"
      [] step = "phases"                   -> "model.eval"
      [] OTHER                             -> "idle"

-----------------------------------------------------------------------------
(* State *)

\* Largest number of epochs of a training phase.
MaxEpochs == 2

\* TrainingPhase()
NoPhase == TrainingPhase(PhaseDefaults).tp

Last(op, err) ==
    [op |-> op, err |-> err, arg |-> "", force |-> FALSE, keep |-> FALSE,
     done |-> << >>, dev |-> "none", loss |-> NoLoss, loss_dict |-> << >>,
     loss_weights |-> NoWeights, inst |-> 0, args |-> NoArgs, idx |-> 0,
     draw |-> << >>, phase |-> NoPhase, samples |-> 0, batches |-> 0,
     losses |-> << >>, value |-> << >>, total_loss |-> 0, calls |-> << >>,
     spec |-> << >>, items |-> EmptyDict]

IdleFrame == [caller |-> "none", pi |-> 0, cur |-> NoPhase, ep |-> 0, bi |-> 0,
              nb |-> 0]

\* Phases handed to the constructor and to run_training_phase.
PhaseA == TrainingPhase([PhaseDefaults EXCEPT !.name = "a", !.epochs = 1,
                                             !.batch_size = 1]).tp
PhaseB == TrainingPhase([PhaseDefaults EXCEPT !.name = "b", !.epochs = MaxEpochs,
                                             !.batch_size = 1,
                                             !.sampling = "negative_edge",
                                             !.batches_per_epoch = 2,
                                             !.loss_keys = << "pos" >>]).tp
PhaseZ == TrainingPhase([PhaseDefaults EXCEPT !.name = "z", !.epochs = 0]).tp

\* The arguments of ParametricDR(...): training_phases and use_cuda.
Configurations ==
    { [training_phases |-> << >>,               use_cuda |-> FALSE],
      [training_phases |-> << PhaseA >>,         use_cuda |-> TRUE],
      [training_phases |-> << PhaseB, PhaseA >>, use_cuda |-> FALSE] }

\* The state ParametricDR.__init__ leaves, no dataset given.
InitOrch(phases, cuda) ==
    /\ dataset_registered = FALSE
    /\ data = NoData
    /\ derived_entries = EmptyDict
    /\ global_relation_data = << >>
    /\ global_relations_computed = FALSE
    /\ trained = FALSE
    /\ training_phases = add_training_phases(<< >>, 1, phases)
    /\ model_training = TRUE
    /\ use_cuda = cuda
    /\ pc = "idle"
    /\ frame = IdleFrame
    /\ last = Last("__init__", "ok")
    /\ log = << >>
    /\ batch_done = FALSE
    /\ train_batch_done = FALSE
    /\ tp = NoPhase
    /\ tp_bound = FALSE
    /\ objects = [a \in {DefaultArgument} \cup Instances |-> NoPhase]
    /\ instances = [i \in Instances |->
                       [training_defaults |-> DefaultArgument,
                        training_phases |-> << >>]]
    /\ edge_dataset = NoEdgeDataset
    /\ raw_batch = << >>
    /\ collated_batch = NoBatch

Init == \E c \in Configurations : InitOrch(c.training_phases, c.use_cuda)

-----------------------------------------------------------------------------
(* Calls on an idle instance *)

\* A dict value whose DerivedDatasetEntry is still to be constructed.
Proto(tkt) == Derived([NoEntry EXCEPT !.type_key_tuples = tkt])

BuildValue(v) ==
    IF v.t = "derived"
    THEN LET c == DerivedDatasetEntry(v.e.type_key_tuples, v.e.kwargs)
         IN  [err |-> c.err, v |-> Derived(c.e)]
    ELSE [err |-> "ok", v |-> v]

\* The caller's dict with its DerivedDatasetEntry objects constructed.
BuildItems(items) ==
    IF \E i \in 1..Len(items) : BuildValue(items[i].e).err # "ok"
    THEN [err |-> "ValueError", items |-> EmptyDict]
    ELSE [err |-> "ok",
          items |-> [i \in 1..Len(items) |-> Item(items[i].k, BuildValue(items[i].e).v)]]

RegisterDataset(d) ==
    /\ pc = "idle"
    /\ LET b == BuildItems(d.items)
           r == register_dataset(data, derived_entries, dataset_registered,
                                 [d EXCEPT !.items = b.items])
       IN  IF b.err # "ok"
           THEN /\ last' = Last("DerivedDatasetEntry", b.err)
                /\ UNCHANGED <<data, derived_entries, dataset_registered, edge_vars>>
           ELSE /\ data' = r.data
                /\ derived_entries' = r.derived
                /\ dataset_registered' = r.registered
                /\ last' = Last("register_dataset", r.err)
    /\ log' = << >>
    /\ UNCHANGED <<global_relation_data, global_relations_computed, trained,
                   training_phases, model_training, use_cuda, pc, frame,
                   batch_done, train_batch_done, tp, tp_bound, objects, instances, edge_vars>>

AddToDataset(items) ==
    /\ pc = "idle"
    /\ LET b == BuildItems(items)
           r == add_to_dataset(dataset_registered, data, derived_entries, b.items)
       IN  IF b.err # "ok"
           THEN /\ last' = Last("DerivedDatasetEntry", b.err)
                /\ UNCHANGED <<data, derived_entries, edge_vars>>
           ELSE /\ data' = r.data
                /\ derived_entries' = r.derived
                /\ last' = Last("add_to_dataset", r.err)
    /\ log' = << >>
    /\ UNCHANGED <<dataset_registered, global_relation_data,
                   global_relations_computed, trained, training_phases,
                   model_training, use_cuda, pc, frame, batch_done, train_batch_done, tp, tp_bound, objects, instances, edge_vars>>

ComputeDerivedData(keep) ==
    /\ pc = "idle"
    /\ LET r == compute_derived_data(dataset_registered, data, derived_entries,
                                     global_relations_computed,
                                     global_relation_data, keep)
       IN  /\ data' = r.data
           /\ derived_entries' = r.derived
           /\ last' = [Last("compute_derived_data", r.err) EXCEPT
                          !.keep = keep, !.done = r.done]
    /\ log' = << >>
    /\ UNCHANGED <<dataset_registered, global_relation_data,
                   global_relations_computed, trained, training_phases,
                   model_training, use_cuda, pc, frame, batch_done, train_batch_done, tp, tp_bound, objects, instances, edge_vars>>

ComputeGlobalRelations(force) ==
    /\ pc = "idle"
    /\ LET r == compute_global_relations(dataset_registered, data,
                                         global_relation_data,
                                         global_relations_computed, force)
       IN  /\ global_relation_data' = r.grd
           /\ global_relations_computed' = r.computed
           /\ last' = [Last("compute_global_relations", r.err) EXCEPT
                          !.force = force, !.done = r.done]
    /\ log' = << >>
    /\ UNCHANGED <<dataset_registered, data, derived_entries, trained,
                   training_phases, model_training, use_cuda, pc, frame,
                   batch_done, train_batch_done, tp, tp_bound, objects, instances, edge_vars>>

Apply(method) ==
    /\ pc = "idle"
    /\ LET r == apply(method, trained, use_cuda)
       IN  last' = [Last("apply", r.err) EXCEPT !.arg = method, !.dev = r.dev]
    /\ log' = << >>
    /\ UNCHANGED <<orch_vars, pc, frame, batch_done, train_batch_done, tp, tp_bound, objects, instances, edge_vars>>

Embed ==
    /\ pc = "idle"
    /\ LET r == call_model_method_by_name("embed", trained, use_cuda)
       IN  last' = [Last("embed", r.err) EXCEPT !.dev = r.dev]
    /\ log' = << >>
    /\ UNCHANGED <<orch_vars, pc, frame, batch_done, train_batch_done, tp, tp_bound, objects, instances, edge_vars>>

-----------------------------------------------------------------------------
(* run_training_phase and train, statement by statement.  While one of them *)
(* runs (pc # "idle") nothing else is called: execution is single-threaded. *)

\* An exception leaves the running call.
Raise(e) ==
    /\ pc' = "idle"
    /\ frame' = IdleFrame
    /\ last' = [last EXCEPT !.err = e]

\* run_training_phase(phase) called directly: the loader and the optimizer.
RunTrainingPhase(phase) ==
    /\ pc = "idle"
    /\ LET r == prepare_loader(dataset_registered, data, global_relations_computed,
                               global_relation_data, phase)
       IN  IF r.err # "ok"
           THEN /\ last' = Last("run_training_phase", r.err)
                /\ UNCHANGED <<pc, frame, edge_vars>>
           ELSE /\ last' = Last("run_training_phase", "running")
                /\ pc' = "epoch"
                /\ frame' = [IdleFrame EXCEPT !.caller = "run_training_phase",
                                              !.cur = phase, !.nb = r.batches]
    /\ log' = << >>
    /\ UNCHANGED <<orch_vars, batch_done, train_batch_done, tp, tp_bound, objects, instances, edge_vars>>

\* for epoch in range(training_phase.epochs): the next epoch, or the return.
EpochLoop ==
    /\ pc = "epoch"
    /\ IF frame.ep < frame.cur.epochs
       THEN /\ pc' = "batch"
            /\ frame' = [frame EXCEPT !.bi = 0]
            /\ UNCHANGED last
       ELSE IF frame.caller = "train"
       THEN /\ pc' = "phases"
            /\ frame' = [frame EXCEPT !.pi = @ + 1]
            /\ UNCHANGED last
       ELSE /\ pc' = "idle"
            /\ frame' = IdleFrame
            /\ last' = [last EXCEPT !.err = "ok"]
    /\ UNCHANGED <<orch_vars, log, batch_done, train_batch_done, tp, tp_bound, objects, instances, edge_vars>>

\* One batch: zero_grad, the loss, backward, step.
BatchCompletes ==
    /\ pc = "batch"
    /\ frame.bi < frame.nb
    /\ loss_get(frame.cur).err = "ok"
    /\ batch_done' = TRUE
    /\ train_batch_done' = (train_batch_done \/ frame.caller = "train")
    /\ frame' = [frame EXCEPT !.bi = @ + 1]
    /\ UNCHANGED <<orch_vars, pc, last, log, tp, tp_bound, objects, instances, edge_vars>>

\* One batch that raises: the phase has no loss, or the loader, the loss or
\* backward fails on the batch.
BatchRaises ==
    /\ pc = "batch"
    /\ frame.bi < frame.nb
    /\ Raise(IF loss_get(frame.cur).err = "ok" THEN "RuntimeError"
             ELSE loss_get(frame.cur).err)
    /\ UNCHANGED <<orch_vars, log, batch_done, train_batch_done, tp, tp_bound, objects, instances, edge_vars>>

\* After the batches of an epoch: loss.checkpoint(), the report, trained = True.
EpochEnd ==
    /\ pc = "batch"
    /\ frame.bi = frame.nb
    /\ IF loss_get(frame.cur).err # "ok"
       THEN Raise(loss_get(frame.cur).err) /\ UNCHANGED trained
       ELSE /\ trained' = TRUE
            /\ pc' = "epoch"
            /\ frame' = [frame EXCEPT !.ep = @ + 1]
            /\ UNCHANGED last
    /\ UNCHANGED <<dataset_registered, data, derived_entries, global_relation_data,
                   global_relations_computed, training_phases, model_training,
                   use_cuda, log, batch_done, train_batch_done, tp, tp_bound, objects, instances, edge_vars>>

\* train(): the call and self._prepare_training().
Train ==
    /\ pc = "idle"
    /\ pc' = TrainNext("prepare_training")
    /\ frame' = [IdleFrame EXCEPT !.caller = "train"]
    /\ last' = Last("train", "running")
    /\ log' = << "prepare_training" >>
    /\ UNCHANGED <<orch_vars, batch_done, train_batch_done, tp, tp_bound, objects, instances, edge_vars>>

\* self.compute_derived_data()
TrainDerived ==
    /\ pc = "compute_derived_data"
    /\ LET r == compute_derived_data(dataset_registered, data, derived_entries,
                                     global_relations_computed,
                                     global_relation_data, FALSE)
       IN  /\ data' = r.data
           /\ derived_entries' = r.derived
           /\ IF r.err # "ok" THEN Raise(r.err) /\ UNCHANGED log
              ELSE /\ pc' = TrainNext(pc)
                   /\ log' = Append(log, pc)
                   /\ UNCHANGED <<frame, last, edge_vars>>
    /\ UNCHANGED <<dataset_registered, global_relation_data,
                   global_relations_computed, trained, training_phases,
                   model_training, use_cuda, batch_done, train_batch_done, tp, tp_bound, objects, instances, edge_vars>>

\* self.compute_global_relations()
TrainRelations ==
    /\ pc = "compute_global_relations"
    /\ LET r == compute_global_relations(dataset_registered, data,
                                         global_relation_data,
                                         global_relations_computed, FALSE)
       IN  /\ global_relation_data' = r.grd
           /\ global_relations_computed' = r.computed
           /\ IF r.err # "ok" THEN Raise(r.err) /\ UNCHANGED log
              ELSE /\ pc' = TrainNext(pc)
                   /\ log' = Append(log, pc)
                   /\ UNCHANGED <<frame, last, edge_vars>>
    /\ UNCHANGED <<dataset_registered, data, derived_entries, trained,
                   training_phases, model_training, use_cuda, batch_done, train_batch_done, tp,
                   tp_bound, objects, instances, edge_vars>>

\* self.model.train()
TrainModeTrain ==
    /\ pc = "model.train"
    /\ model_training' = TRUE
    /\ pc' = TrainNext(pc)
    /\ frame' = [frame EXCEPT !.pi = 1]
    /\ log' = Append(log, pc)
    /\ UNCHANGED <<dataset_registered, data, derived_entries, global_relation_data,
                   global_relations_computed, trained, training_phases, use_cuda,
                   last, batch_done, train_batch_done, tp, tp_bound, objects, instances, edge_vars>>

\* for tp in self.training_phases: self.run_training_phase(tp)
TrainPhases ==
    /\ pc = "phases"
    /\ IF frame.pi > Len(training_phases)
       THEN /\ pc' = TrainNext(pc)
            /\ UNCHANGED <<frame, last, log, edge_vars>>
       ELSE LET phase == training_phases[frame.pi]
                r == prepare_loader(dataset_registered, data,
                                    global_relations_computed,
                                    global_relation_data, phase)
            IN  IF r.err # "ok" THEN Raise(r.err) /\ UNCHANGED log
                ELSE /\ pc' = "epoch"
                     /\ frame' = [frame EXCEPT !.cur = phase, !.nb = r.batches,
                                               !.ep = 0, !.bi = 0]
                     /\ log' = Append(log, phase.name)
                     /\ UNCHANGED last
    /\ UNCHANGED <<orch_vars, batch_done, train_batch_done, tp, tp_bound, objects, instances, edge_vars>>

\* self.model.eval(), and the return.
TrainModeEval ==
    /\ pc = "model.eval"
    /\ model_training' = FALSE
    /\ pc' = TrainNext(pc)
    /\ frame' = IdleFrame
    /\ last' = [last EXCEPT !.err = "ok"]
    /\ log' = Append(log, pc)
    /\ UNCHANGED <<dataset_registered, data, derived_entries, global_relation_data,
                   global_relations_computed, trained, training_phases, use_cuda,
                   batch_done, train_batch_done, tp, tp_bound, objects, instances, edge_vars>>

Running ==
    \/ EpochLoop \/ BatchCompletes \/ BatchRaises \/ EpochEnd
    \/ TrainDerived \/ TrainRelations \/ TrainModeTrain \/ TrainPhases
    \/ TrainModeEval

-----------------------------------------------------------------------------
(* The lifecycle of one instance *)

TypeKeyTuplesData == << << "data", "data" >> >>
TypeKeyTuplesRel  == << << "rel", "rel" >> >>
TypeKeyTuplesPca  == << << "data", "pca" >> >>
TypeKeyTuplesBoth == << << "data", "data" >>, << "rel", "aux" >> >>
TypeKeyTuplesBad  == << << "data", "data" >>, << "labels", "data" >> >>

\* The arrays an instance is trained on have rows.
Arrays == { ArrayInput(n) : n \in 1..MaxLen }

Additions ==
    { << Item("pca", Proto(TypeKeyTuplesData)) >>,
      << Item("spectral", Proto(TypeKeyTuplesRel)) >> }

RunPhases == { NoPhase } \cup
    { add_training_phases(<< >>, 1, << p >>)[1] : p \in {PhaseZ, PhaseA, PhaseB} }

Methods == {"None", "embed", "training", "forward_backward"}

Next ==
    \/ \E d \in Arrays : RegisterDataset(d)
    \/ \E items \in Additions : AddToDataset(items)
    \/ ComputeDerivedData(FALSE)
    \/ \E force \in BOOLEAN : ComputeGlobalRelations(force)
    \/ \E phase \in RunPhases : RunTrainingPhase(phase)
    \/ \E method \in Methods : Apply(method)
    \/ Embed
    \/ Train
    \/ Running

Spec == Init /\ [][Next]_vars

-----------------------------------------------------------------------------
(* The dataset layer of one instance, with a wider choice of inputs *)

DataDatasets ==
    { ArrayInput(n) : n \in 0..MaxLen }
    \cup { DictInput(<< Item("data", Array(MaxLen)), Item("pca", Array(m)) >>) :
             m \in 0..MaxLen }
    \cup { DictInput(<< Item("pca", Array(1)) >>),
           DictInput(<< Item("data", Array(1)),
                        Item("spectral", Proto(TypeKeyTuplesRel)) >>),
           DictInput(<< Item("data", Array(1)),
                        Item("spectral", Proto(TypeKeyTuplesBad)) >>),
           DictInput(<< Item("data", Array(1)), Item("pca", Other) >>),
           DictInput(<< Item("data", Proto(TypeKeyTuplesData)) >>),
           DictInput(<< Item("pca", Array(1)),
                        Item("data", Proto(TypeKeyTuplesData)) >>),
           OtherInput }

DataAdditions ==
    { << Item("pca", Array(n)) >> : n \in 0..MaxLen }
    \cup { << Item("pca", Proto(tkt)) >> :
             tkt \in {TypeKeyTuplesData, TypeKeyTuplesPca} }
    \cup { << Item("spectral", Proto(tkt)) >> :
             tkt \in {TypeKeyTuplesRel, TypeKeyTuplesBoth} }
    \cup { << Item("spectral", Proto(TypeKeyTuplesBad)) >>,
           << Item("spectral", Proto(<< >>)) >>,
           << Item("pca", Other) >>,
           << Item("pca", Array(1)), Item("spectral", Other) >> }

InitData == InitOrch(<< >>, FALSE)

NextData ==
    \/ \E d \in DataDatasets : RegisterDataset(d)
    \/ \E items \in DataAdditions : AddToDataset(items)
    \/ \E keep \in BOOLEAN : ComputeDerivedData(keep)
    \/ \E force \in BOOLEAN : ComputeGlobalRelations(force)

SpecData == InitData /\ [][NextData]_vars

-----------------------------------------------------------------------------
(* One TrainingPhase object: construction, _determine_loss, the loss property *)

PhaseArguments ==
    { [PhaseDefaults EXCEPT !.name = n, !.loss_keys = k, !.loss_weights = w,
                            !.sampling = s] :
        n \in {"None", "p"},
        k \in { << >>, << "a" >>, << "b" >>, << "a", "b" >>, << "b", "c" >> },
        w \in { NoWeights, Weights(<< 2, 3 >>) },
        s \in {"standard", "negative_edge", "edge"} }

LossA == At(Loss("RelationLoss", "la", "rel"), 1)
LossB == At(Loss("PositionLoss", "lb", ""), 2)
LossC == At(Loss("ClassificationLoss", "lc", ""), 3)

LossDicts ==
    { << >>, ("a" :> LossA), ("b" :> LossB), ("a" :> LossA) @@ ("b" :> LossB),
      ("a" :> LossC) @@ ("b" :> LossB) @@ ("c" :> LossC) }

NewTrainingPhase(a) ==
    /\ LET r == TrainingPhase(a)
       IN  /\ tp' = IF r.err = "ok" THEN r.tp ELSE tp
           /\ tp_bound' = IF r.err = "ok" THEN FALSE ELSE tp_bound
           /\ last' = [Last("TrainingPhase", r.err)
                          EXCEPT !.loss_weights = a.loss_weights]
    /\ UNCHANGED <<orch_vars, pc, frame, log, batch_done, train_batch_done, objects,
                   instances, edge_vars>>

DetermineLoss(loss_dict) ==
    /\ LET used == DictIds(loss_dict) \cup LossIds(tp.loss)
           r == determine_loss(tp, loss_dict,
                               Allocate(used, Need(tp.loss_keys, loss_dict, 1)))
       IN  /\ tp' = r.tp
           /\ tp_bound' = (tp_bound \/ r.err = "ok")
           /\ last' = [Last("_determine_loss", r.err) EXCEPT !.loss_dict = loss_dict]
    /\ UNCHANGED <<orch_vars, pc, frame, log, batch_done, train_batch_done, objects,
                   instances, edge_vars>>

ReadLoss ==
    /\ LET r == loss_get(tp)
       IN  last' = [Last("loss", r.err) EXCEPT !.loss = r.loss]
    /\ UNCHANGED <<orch_vars, pc, frame, log, batch_done, train_batch_done, tp, tp_bound, objects, instances, edge_vars>>

NextPhase ==
    \/ \E a \in PhaseArguments : NewTrainingPhase(a)
    \/ \E loss_dict \in LossDicts : DetermineLoss(loss_dict)
    \/ ReadLoss

SpecPhase == InitData /\ [][NextPhase]_vars

-----------------------------------------------------------------------------
(* The training defaults and the phase list of an instance *)

\* Most phases an instance is given.
MaxPhases == 2

\* A phase handed to set_training_defaults, and one handed to add_training_phase.
GivenDefaults == TrainingPhase([PhaseDefaults EXCEPT !.epochs = 3,
                                                    !.batch_size = 20]).tp
GivenPhase == TrainingPhase([PhaseDefaults EXCEPT
                               !.name = "g", !.loss_keys = << "loss", "pos" >>,
                               !.loss_weights = Weights(<< 2, 3 >>)]).tp

DefaultsArguments ==
    { NoArgs,
      [NoArgs EXCEPT !.epochs = Given(7)],
      [NoArgs EXCEPT !.batches_per_epoch = Given(3)],
      [NoArgs EXCEPT !.report_interval = Given(9)] }

AddArguments ==
    { NoArgs,
      [NoArgs EXCEPT !.loss_keys = Given(<< "pos" >>)],
      [NoArgs EXCEPT !.loss_keys = Given(<< "loss", "pos" >>)],
      [NoArgs EXCEPT !.loss_keys = Given(<< "loss", "pos" >>),
                     !.loss_weights = Given(<< 2, 3 >>)],
      [NoArgs EXCEPT !.loss_keys = Given(<< "missing" >>)],
      [NoArgs EXCEPT !.sampling = Given("negative_edge")],
      [NoArgs EXCEPT !.training_phase = Given(GivenPhase)] }

\* set_training_defaults(**a) on instance i.
SetTrainingDefaults(i, a) ==
    /\ LET addr == instances[i].training_defaults
           new == set_training_defaults(objects[addr], a)
       IN  IF a.training_phase # Absent
           THEN /\ objects' = [objects EXCEPT ![i] = new]
                /\ instances' = [instances EXCEPT ![i].training_defaults = i]
           ELSE /\ objects' = [objects EXCEPT ![addr] = new]
                /\ UNCHANGED instances
    /\ last' = [Last("set_training_defaults", "ok") EXCEPT !.inst = i, !.args = a]
    /\ UNCHANGED <<orch_vars, pc, frame, log, batch_done, train_batch_done, tp,
                   tp_bound, edge_vars>>

\* add_training_phase(**a) on instance i.
AddTrainingPhase(i, a) ==
    /\ Len(instances[i].training_phases) < MaxPhases
    /\ LET phase == phase_from_arguments(objects[instances[i].training_defaults], a)
           r == add_training_phase(instances[i].training_phases, phase, Losses,
                                   BatchRelations)
       IN  /\ instances' = [instances EXCEPT ![i].training_phases = r.phases]
           /\ last' = [Last("add_training_phase", r.err)
                          EXCEPT !.inst = i, !.args = a]
    /\ UNCHANGED <<orch_vars, pc, frame, log, batch_done, train_batch_done, tp,
                   tp_bound, objects, edge_vars>>

\* One instance.
NextConfig ==
    \/ \E a \in DefaultsArguments : SetTrainingDefaults(1, a)
    \/ \E a \in AddArguments : AddTrainingPhase(1, a)

SpecConfig == InitData /\ [][NextConfig]_vars

\* Two instances, both constructed without a training_defaults argument.
SharedArguments ==
    { [NoArgs EXCEPT !.epochs = Given(7)],
      [NoArgs EXCEPT !.training_phase = Given(GivenDefaults)] }

NextShared ==
    \/ \E i \in Instances, a \in SharedArguments : SetTrainingDefaults(i, a)
    \/ \E i \in Instances : AddTrainingPhase(i, NoArgs)

SpecShared == InitData /\ [][NextShared]_vars

-----------------------------------------------------------------------------
(* The loader of a negative_edge phase: items and batches *)

\* Largest negative sampling rate of an edge dataset.
MaxRate == 1

\* Most items the loader puts into one batch.
MaxBatch == 2

\* The coordinate arrays of symmetric relations among two and three items.
EdgeRelations ==
    { Coo(2, << 0, 1 >>, << 1, 0 >>),
      Coo(3, << 1, 2 >>, << 2, 1 >>) }

\* Datasets with n items: the indices column is the one Dataset adds, or one
\* the user passed (with distinct entries, or with repeated ones).
EdgeData(n) ==
    { Columns([k \in 1..n |-> 10 + k], arange(n)),
      Columns([k \in 1..n |-> 10 + k], [k \in 1..n |-> n - k]),
      Columns([k \in 1..n |-> 10 + k], [k \in 1..n |-> (k - 1) \div 2]) }

EdgeDatasets ==
    { NegSampledEdgeDataset(d, p, r) :
        d \in UNION { EdgeData(q.shape) : q \in EdgeRelations },
        p \in EdgeRelations, r \in 0..MaxRate }

\* _prepare_loader constructs the edge dataset of a negative_edge phase.
NewEdgeDataset(ds) ==
    /\ Len(ds.dataset.data) = ds.p_ij.shape
    /\ edge_dataset' = ds
    /\ raw_batch' = << >>
    /\ collated_batch' = NoBatch
    /\ last' = Last("NegSampledEdgeDataset", "ok")
    /\ UNCHANGED <<orch_vars, pc, frame, log, batch_done, train_batch_done, tp,
                   tp_bound, objects, instances>>

\* The loader fetches edge_dataset[idx] for an idx its sampler drew; the item
\* joins the batch being gathered.
GetItem(idx, randint) ==
    /\ edge_dataset # NoEdgeDataset
    /\ collated_batch = NoBatch
    /\ Len(raw_batch) < MaxBatch
    /\ raw_batch' = Append(raw_batch, getitem(edge_dataset, idx, randint))
    /\ last' = [Last("__getitem__", "ok") EXCEPT !.idx = idx, !.draw = randint]
    /\ UNCHANGED <<orch_vars, pc, frame, log, batch_done, train_batch_done, tp,
                   tp_bound, objects, instances, edge_dataset, collated_batch>>

\* The loader collates the batch it has gathered.
CollateEdgeBatch ==
    /\ raw_batch # << >>
    /\ collated_batch = NoBatch
    /\ collated_batch' = collate_edge_batch(raw_batch)
    /\ last' = Last("_collate_edge_batch", "ok")
    /\ UNCHANGED <<orch_vars, pc, frame, log, batch_done, train_batch_done, tp,
                   tp_bound, objects, instances, edge_dataset, raw_batch>>

\* edge_dataset[idx] for an idx below len(edge_dataset), outside of a loader.
Subscript(idx, randint) ==
    /\ edge_dataset # NoEdgeDataset
    /\ raw_batch = << >>
    /\ LET r == subscript(edge_dataset, idx, randint)
       IN  last' = [Last("subscript", r.err) EXCEPT
                       !.idx = idx, !.draw = randint,
                       !.done = << r.row, r.col >>]
    /\ UNCHANGED <<orch_vars, pc, frame, log, batch_done, train_batch_done, tp,
                   tp_bound, objects, instances, edge_vars>>

\* The loader has yielded the collated batch and goes on to gather the next.
NextBatch ==
    /\ collated_batch # NoBatch
    /\ raw_batch' = << >>
    /\ collated_batch' = NoBatch
    /\ last' = Last("DataLoader", "ok")
    /\ UNCHANGED <<orch_vars, pc, frame, log, batch_done, train_batch_done, tp,
                   tp_bound, objects, instances, edge_dataset>>

NextEdge ==
    \/ \E ds \in EdgeDatasets : NewEdgeDataset(ds)
    \/ \E idx \in 0..(Len(edge_dataset.p_ij.row) - 1),
          randint \in [1..(edge_dataset.neg_sampling_rate + 1) ->
                         0..(edge_dataset.p_ij.shape - 1)] :
          GetItem(idx, randint)
    \/ CollateEdgeBatch
    \/ NextBatch
    \/ \E idx \in 0..(edge_dataset_len(edge_dataset) - 1),
          randint \in [1..(edge_dataset.neg_sampling_rate + 1) ->
                         0..(edge_dataset.p_ij.shape - 1)] :
          Subscript(idx, randint)

SpecEdge == InitData /\ [][NextEdge]_vars

-----------------------------------------------------------------------------
(* The loader of a phase: how much it samples *)

\* Largest number of rows of a dataset a loader is prepared for.
MaxItems == 4

\* Largest batch_size, and largest batches_per_epoch, of such a phase.
MaxBatchSize == 2
MaxBatches == 2

LoaderDatasets ==
    { ArrayInput(n) : n \in 1..MaxItems }
    \cup { DictInput(<< Item("data", Array(n)), Item("pca", Array(n)) >>) :
             n \in 1..MaxItems }

LoaderPhases ==
    { TrainingPhase([PhaseDefaults EXCEPT !.sampling = s, !.batch_size = bs,
                                          !.batches_per_epoch = bpe,
                                          !.neg_sampling_rate = r,
                                          !.edge_rel_key = key]).tp :
        s \in Samplings, bs \in 1..MaxBatchSize,
        bpe \in {-1} \cup 1..MaxBatches, r \in 0..MaxRate,
        key \in {"rel", "knn"} }

\* _prepare_loader(phase) on an idle instance.
PrepareLoader(phase) ==
    /\ pc = "idle"
    /\ LET r == prepare_loader(dataset_registered, data, global_relations_computed,
                               global_relation_data, phase)
       IN  last' = [Last("_prepare_loader", r.err) EXCEPT
                       !.phase = phase, !.samples = r.samples,
                       !.batches = r.batches]
    /\ log' = << >>
    /\ UNCHANGED <<orch_vars, pc, frame, batch_done, train_batch_done, tp,
                   tp_bound, objects, instances, edge_vars>>

NextLoader ==
    \/ \E d \in LoaderDatasets : RegisterDataset(d)
    \/ ComputeGlobalRelations(FALSE)
    \/ \E phase \in LoaderPhases : PrepareLoader(phase)

SpecLoader == InitData /\ [][NextLoader]_vars

-----------------------------------------------------------------------------
(* One instance whose dataset is replaced and extended between trainings *)

\* Datasets that hold a column for every global relation.
RelationsDatasets ==
    { DictInput(<< Item("data", Array(n)), Item("pca", Array(n)) >>) :
        n \in 1..MaxItems }

RelationsAdditions == { << Item("pca", Array(n)) >> : n \in 1..MaxItems }

InitRelations == InitOrch(<< PhaseA >>, FALSE)

NextRelations ==
    \/ \E d \in RelationsDatasets : RegisterDataset(d)
    \/ \E items \in RelationsAdditions : AddToDataset(items)
    \/ \E force \in BOOLEAN : ComputeGlobalRelations(force)
    \/ Train
    \/ Running

SpecRelations == InitRelations /\ [][NextRelations]_vars

-----------------------------------------------------------------------------
(* A CompoundLoss on its own *)

\* Most children of a CompoundLoss, the largest weight, and the largest value
\* a child returns.  Weights and values are whole numbers here.
MaxChildren == 2
MaxWeight == 2
MaxValue == 2

SeqsUpTo(S, n) == UNION { [1..k -> S] : k \in 0..n }

Children == { LossA, LossB }

ChildValues == [ { c.name : c \in Children } -> 0..MaxValue ]

WeightArguments ==
    { NoWeights } \cup { Weights(w) : w \in SeqsUpTo(0..MaxWeight, MaxChildren) }

\* CompoundLoss(losses, weights): the constructor runs once for the object.
NewCompoundLoss(losses, weights) ==
    /\ last.op = "__init__"
    /\ LET c == CompoundLoss(losses, weights, "None")
       IN  last' = [Last("CompoundLoss", c.err) EXCEPT
                       !.loss = c.loss, !.losses = losses,
                       !.loss_weights = weights]
    /\ UNCHANGED <<orch_vars, pc, frame, log, batch_done, train_batch_done, tp,
                   tp_bound, objects, instances, edge_vars>>

\* The CompoundLoss constructed last is called on a batch for which its
\* children return the values value.
Forward(value) ==
    /\ last.loss.cls = "CompoundLoss"
    /\ LET r == forward(last.loss, value)
       IN  last' = [last EXCEPT !.op = "forward", !.value = value,
                                !.total_loss = r.total_loss, !.calls = r.calls]
    /\ UNCHANGED <<orch_vars, pc, frame, log, batch_done, train_batch_done, tp,
                   tp_bound, objects, instances, edge_vars>>

NextLoss ==
    \/ \E losses \in SeqsUpTo(Children, MaxChildren), weights \in WeightArguments :
          NewCompoundLoss(losses, weights)
    \/ \E value \in ChildValues : Forward(value)

SpecLoss == InitData /\ [][NextLoss]_vars

-----------------------------------------------------------------------------
(* An instance assembled from a specification (from_spec) *)

\* Most entries of the dataset list of a specification.
MaxEntries == 2

\* Entries of the dataset list: {"data": array}, and {"data func": ...,
\* "keys": ..., "options": ...}.
DataEntry(n) == [has_data |-> TRUE, data |-> Array(n), func |-> "",
                 keys |-> << >>]
FuncEntry(func, keys) == [has_data |-> FALSE, data |-> Other, func |-> func,
                          keys |-> keys]

\* df_dict of _dataset_from_spec
DataFuncs == {"pca", "spectral"}

RECURSIVE dataset_from_spec_loop(_, _, _)
\* The loop of _dataset_from_spec: every entry is stored under the key "name".
dataset_from_spec_loop(spec, i, dataset) ==
    IF i > Len(spec) THEN [err |-> "ok", items |-> dataset]
    ELSE IF spec[i].has_data
    THEN dataset_from_spec_loop(spec, i + 1, DictSet(dataset, "name", spec[i].data))
    ELSE IF spec[i].func \notin DataFuncs THEN [err |-> "KeyError", items |-> dataset]
    ELSE LET c == DerivedDatasetEntry(spec[i].keys, {"out_dim"})
         IN  IF c.err # "ok" THEN [err |-> c.err, items |-> dataset]
             ELSE dataset_from_spec_loop(spec, i + 1,
                                         DictSet(dataset, "name", Derived(c.e)))

\* _dataset_from_spec(spec); items: the dict handed to Dataset.
dataset_from_spec(spec) ==
    LET l == dataset_from_spec_loop(spec, 1, EmptyDict)
        d == Dataset(DictInput(l.items))
    IN  IF l.err # "ok"
        THEN [err |-> l.err, items |-> l.items, data |-> NoData,
              derived |-> EmptyDict]
        ELSE [err |-> d.err, items |-> l.items, data |-> d.data,
              derived |-> d.derived]

\* rel_dict of _relations_from_spec: reltype -> class.
RelTypes ==
    ("precomp" :> "Precomputed") @@ ("pdist" :> "PDist")
    @@ ("neighbor" :> "NeighborBasedPDist")
    @@ ("pdistdiff" :> "DifferentiablePDist") @@ ("fromto" :> "DistsFromTo")

RECURSIVE relations_from_spec(_, _, _, _)
\* _relations_from_spec(spec), from entry number i on.
relations_from_spec(spec, i, global_rels, batch_rels) ==
    IF i > Len(spec)
    THEN [err |-> "ok", global_relations |-> global_rels,
          batch_relations |-> batch_rels]
    ELSE IF spec[i].reltype \notin DOMAIN RelTypes
    THEN [err |-> "KeyError", global_relations |-> global_rels,
          batch_relations |-> batch_rels]
    ELSE IF spec[i].level = "global"
    THEN relations_from_spec(spec, i + 1,
                             Put(global_rels, spec[i].name, RelTypes[spec[i].reltype]),
                             batch_rels)
    ELSE relations_from_spec(spec, i + 1, global_rels,
                             Put(batch_rels, spec[i].name, RelTypes[spec[i].reltype]))

\* loss_dict of _losses_from_spec: losstype -> class.
LossTypes ==
    ("relation" :> "RelationLoss") @@ ("classification" :> "ClassificationLoss")
    @@ ("reconstruction" :> "ReconstructionLoss") @@ ("position" :> "PositionLoss")

RECURSIVE losses_from_spec(_, _, _)
\* _losses_from_spec(spec), from entry number i on; the loss of entry i is the
\* object at address i.
losses_from_spec(spec, i, losses) ==
    IF i > Len(spec) THEN [err |-> "ok", losses |-> losses]
    ELSE IF spec[i].losstype \notin DOMAIN LossTypes
    THEN [err |-> "KeyError", losses |-> losses]
    ELSE losses_from_spec(
             spec, i + 1,
             Put(losses, spec[i].name,
                 At(Loss(LossTypes[spec[i].losstype], spec[i].name,
                         IF spec[i].losstype = "relation" THEN spec[i].rels[2]
                         ELSE ""), i)))

RECURSIVE training_phases_from_spec(_, _, _)
\* _training_phases_from_spec(spec), from entry number i on.
training_phases_from_spec(spec, i, phases) ==
    IF i > Len(spec) THEN [err |-> "ok", phases |-> phases]
    ELSE LET r == TrainingPhase(
                      [PhaseDefaults EXCEPT
                         !.epochs = spec[i].epochs,
                         !.sampling = IF spec[i].samplingtype = "edge"
                                      THEN "negative_edge" ELSE "standard",
                         !.loss_keys = spec[i].components,
                         !.loss_weights = Weights(spec[i].weights),
                         !.optimizer = spec[i].optimtype])
         IN  IF r.err # "ok" THEN [err |-> r.err, phases |-> phases]
             ELSE training_phases_from_spec(spec, i + 1, Append(phases, r.tp))

RECURSIVE init_training_phases(_, _, _, _, _)
\* for tp in training_phases: self.add_training_phase(training_phase=tp)
init_training_phases(phases, i, given, losses, batch_relations) ==
    IF i > Len(given) THEN [err |-> "ok", phases |-> phases]
    ELSE LET r == add_training_phase(phases, given[i], losses, batch_relations)
         IN  IF r.err # "ok" THEN r
             ELSE init_training_phases(r.phases, i + 1, given, losses,
                                       batch_relations)

\* The outcome of a constructor that raised.
NoInstance(err) ==
    [err |-> err, registered |-> FALSE, data |-> NoData, derived |-> EmptyDict,
     training_phases |-> << >>, trained |-> FALSE]

\* ParametricDR(model=None, dataset=dataset, global_relations=...,
\* batch_relations=..., losses=..., training_phases=...); dataset: Absent, or
\* the Dataset given.
ParametricDR(dataset, batch_relations, losses, phases) ==
    IF dataset = Absent THEN NoInstance("ValueError")
    ELSE IF "data" \notin DOMAIN dataset[1].data THEN NoInstance("KeyError")
    ELSE LET r == init_training_phases(<< >>, 1, phases, losses, batch_relations)
         IN  IF r.err # "ok" THEN NoInstance(r.err)
             ELSE [err |-> "ok", registered |-> TRUE, data |-> dataset[1].data,
                   derived |-> dataset[1].derived,
                   training_phases |-> r.phases, trained |-> FALSE]

\* spec.get(key, {})
SpecGet(spec, key) == IF spec[key] = Absent THEN << >> ELSE spec[key][1]

\* ParametricDR.from_spec(spec), spec a mapping that validate_spec returns as
\* it is.
from_spec(spec) ==
    LET dataset_spec == SpecGet(spec, "dataset")
        d == dataset_from_spec(dataset_spec)
        rels == relations_from_spec(SpecGet(spec, "relations"), 1, << >>, << >>)
        ls == losses_from_spec(SpecGet(spec, "losses"), 1, << >>)
        tps == training_phases_from_spec(SpecGet(spec, "training phases"), 1, << >>)
    IN  IF dataset_spec # << >> /\ d.err # "ok" THEN NoInstance(d.err)
        ELSE IF rels.err # "ok" THEN NoInstance(rels.err)
        ELSE IF ls.err # "ok" THEN NoInstance(ls.err)
        ELSE IF tps.err # "ok" THEN NoInstance(tps.err)
        ELSE ParametricDR(IF dataset_spec # << >> THEN Given(d) ELSE Absent,
                          rels.batch_relations, ls.losses, tps.phases)

\* The parts of a specification.
DatasetEntries ==
    { DataEntry(n) : n \in 1..2 }
    \cup { FuncEntry("pca", TypeKeyTuplesData),
           FuncEntry("spectral", TypeKeyTuplesRel) }

RelationsSpec ==
    << [name |-> "rel", reltype |-> "pdist", level |-> "global"],
       [name |-> "rel", reltype |-> "pdistdiff", level |-> "batch"] >>

LossesSpec ==
    << [name |-> "loss", losstype |-> "relation", rels |-> << "rel", "rel" >>] >>

TrainingPhasesSpec ==
    << [epochs |-> 1, samplingtype |-> "item", components |-> << "loss" >>,
        weights |-> << 1 >>, optimtype |-> "Adam"] >>

Specs ==
    { ("dataset" :> d) @@ ("relations" :> r) @@ ("losses" :> l)
      @@ ("training phases" :> t) :
        d \in { Absent } \cup { Given(e) : e \in SeqsUpTo(DatasetEntries, MaxEntries) },
        r \in { Absent, Given(RelationsSpec) },
        l \in { Absent, Given(LossesSpec) },
        t \in { Absent, Given(TrainingPhasesSpec) } }

\* dr = ParametricDR.from_spec(spec): on success the instance is the new one.
FromSpec(spec) ==
    /\ pc = "idle"
    /\ LET r == from_spec(spec)
       IN  /\ last' = [Last("from_spec", r.err) EXCEPT !.spec = spec]
           /\ IF r.err = "ok"
              THEN /\ dataset_registered' = r.registered
                   /\ data' = r.data
                   /\ derived_entries' = r.derived
                   /\ global_relation_data' = << >>
                   /\ global_relations_computed' = FALSE
                   /\ trained' = r.trained
                   /\ training_phases' = r.training_phases
                   /\ model_training' = TRUE
                   /\ use_cuda' = FALSE
              ELSE UNCHANGED orch_vars
    /\ log' = << >>
    /\ UNCHANGED <<pc, frame, batch_done, train_batch_done, tp, tp_bound,
                   objects, instances, edge_vars>>

\* _dataset_from_spec(spec) called on its own.
DatasetFromSpec(spec) ==
    /\ LET r == dataset_from_spec(spec)
       IN  last' = [Last("_dataset_from_spec", r.err) EXCEPT
                       !.spec = spec, !.items = r.items]
    /\ UNCHANGED <<orch_vars, pc, frame, log, batch_done, train_batch_done, tp,
                   tp_bound, objects, instances, edge_vars>>

NextFromSpec ==
    \/ \E spec \in Specs : FromSpec(spec)
    \/ \E spec \in SeqsUpTo(DatasetEntries, MaxEntries) : DatasetFromSpec(spec)

SpecFromSpec == InitData /\ [][NextFromSpec]_vars

-----------------------------------------------------------------------------
(* Properties *)

IsPrefix(s, t) == Len(s) <= Len(t) /\ SubSeq(t, 1, Len(s)) = s

HasRel(tkt) == \E i \in 1..Len(tkt) : tkt[i][1] = "rel"

\* C1: at every point during and after any sequence of run_training_phase and
\* train calls, also ones cut short by an error, trained is true if and only if
\* at least one batch of some phase has completed.
C1_TrainedIffBatchCompleted == trained <=> batch_done

\* C2: apply(X) with the default method fails with NotTrained whenever trained
\* is false, and succeeds with a CPU-resident result once train() has completed
\* at least one batch of one phase.
C2_ApplyGate ==
    (last.op = "apply" /\ last.arg = "None") =>
        /\ ~trained => last.err = "NotTrainedError"
        /\ train_batch_done => (last.err = "ok" /\ last.dev = "cpu")

\* What a successful train() call logs, in order.
ExpectedLog ==
    << "prepare_training", "compute_derived_data", "compute_global_relations",
       "model.train" >>
    \o [i \in 1..Len(training_phases) |-> training_phases[i].name]
    \o << "model.eval" >>

\* C3: a train() call performs the pre-training hook, the derived data, the
\* global relations, model.train(), each phase of training_phases once in list
\* order and model.eval(), in this order; when it returns the model is in
\* evaluation mode.
C3_TrainOrder ==
    last.op = "train" =>
        /\ IsPrefix(log, ExpectedLog)
        /\ last.err = "ok" => (pc = "idle" /\ log = ExpectedLog /\ ~model_training)

C3_Witness ==
    /\ last.op = "train" /\ last.err = "ok"
    /\ Len(training_phases) = 2
    /\ batch_done

\* C4: train() computes the global relations before the derived entries, so it
\* never fails with RelationsNotComputed on a derived entry with a rel source.
C4_TrainNeverLacksRelations ==
    (pc = "idle" /\ last.op = "train") => last.err # "RelationsNotComputedError"

\* C5: a compute_global_relations() call without force on an instance whose
\* relations are computed changes nothing; any other successful call computes
\* the relation data of every named global relation, each once, from its
\* data_key column, and sets the computed flag.
C5_ComputeOnce ==
    [][ (pc = "idle" /\ last'.op = "compute_global_relations" /\ last'.err = "ok") =>
          IF ~last'.force /\ global_relations_computed
          THEN /\ last'.done = << >>
               /\ UNCHANGED <<global_relation_data, global_relations_computed, edge_vars>>
          ELSE /\ last'.done = DictKeys(GlobalRelations)
               /\ global_relations_computed'
               /\ \A i \in 1..Len(GlobalRelations) :
                      global_relation_data'[GlobalRelations[i].k]
                          = RelationData(data[GlobalRelations[i].e]) ]_vars

C5_Witness ==
    /\ last.op = "compute_global_relations" /\ last.err = "ok"
    /\ ~last.force /\ last.done = << >>
    /\ global_relations_computed
    /\ DOMAIN global_relation_data = {"rel", "aux"}

\* C6: after non-failing register_dataset, add_to_dataset and
\* compute_derived_data calls every column of dataset.data has as many rows as
\* the data column.
C6_EqualLengths ==
    (dataset_registered /\ last.err = "ok"
       /\ last.op \in {"register_dataset", "add_to_dataset", "compute_derived_data"})
    => \A k \in DOMAIN data : data[k] = data["data"]

\* The same keys, in the same order, with the same sources.
SameDefinitions(d1, d2) ==
    /\ DictKeys(d1) = DictKeys(d2)
    /\ \A i \in 1..Len(d1) :
          /\ d1[i].e.type_key_tuples = d2[i].e.type_key_tuples
          /\ d1[i].e.requires_relations = d2[i].e.requires_relations

C8_NoDatasetRegistered ==
    [][ (pc = "idle" /\ ~dataset_registered
           /\ last'.op \in {"add_to_dataset", "compute_derived_data",
                            "compute_global_relations", "run_training_phase"}) =>
          /\ last'.err = "NoDatasetRegisteredError"
          /\ UNCHANGED <<orch_vars, pc, frame, batch_done, train_batch_done, edge_vars>> ]_vars

C8_Witness ==
    /\ ~dataset_registered
    /\ last.op = "run_training_phase" /\ last.err = "NoDatasetRegisteredError"

\* The first entry with a rel source is reached: every entry before it finds
\* its sources among the columns and the columns written before it.
ReachesFirstRel(der, dat) ==
    \E i \in 1..Len(der) :
        /\ HasRel(der[i].e.type_key_tuples)
        /\ \A j \in 1..(i - 1) :
              /\ ~HasRel(der[j].e.type_key_tuples)
              /\ \A s \in 1..Len(der[j].e.type_key_tuples) :
                     der[j].e.type_key_tuples[s][2]
                         \in DOMAIN dat \cup { der[m].k : m \in 1..(j - 1) }

\* C9: compute_derived_data fails with RelationsNotComputed exactly when it
\* reaches an entry with a rel source while the global relations are not
\* computed; requires_relations is true exactly for the entries with a rel
\* source.
C9_RelationsNotComputed ==
    [][ /\ \A i \in 1..Len(derived_entries') :
              derived_entries'[i].e.requires_relations
                  <=> HasRel(derived_entries'[i].e.type_key_tuples)
        /\ (pc = "idle" /\ last'.op = "compute_derived_data") =>
              ( last'.err = "RelationsNotComputedError"
                  <=> /\ dataset_registered
                      /\ ~global_relations_computed
                      /\ ReachesFirstRel(derived_entries, data) ) ]_vars

C9_Witness ==
    /\ last.op = "compute_derived_data"
    /\ last.err = "RelationsNotComputedError"
    /\ Len(last.done) >= 1

\* C10: reading the loss of a phase fails with LossNotDetermined if and only if
\* no _determine_loss call on the phase has succeeded, and returns the bound
\* loss otherwise.
C10_LossNotDetermined ==
    /\ loss_get(tp).err = "LossNotDeterminedError" <=> ~tp_bound
    /\ last.op = "loss" =>
          /\ last.err = loss_get(tp).err
          /\ last.err = "ok" => (last.loss = tp.loss /\ last.loss # NoLoss)

C10_Witness ==
    /\ last.op = "_determine_loss" /\ last.err = "KeyError"
    /\ Len(tp.loss_keys) = 2
    /\ ~tp_bound
    /\ loss_get(tp).err = "LossNotDeterminedError"

\* a is a copy of b: another object with the attributes of b.
IsCopy(a, b) ==
    /\ a.id # b.id
    /\ [a EXCEPT !.id = 0, !.losses = << >>] = [b EXCEPT !.id = 0, !.losses = << >>]
    /\ Len(a.losses) = Len(b.losses)
    /\ \A i \in 1..Len(a.losses) :
          /\ a.losses[i].id # b.losses[i].id
          /\ At(a.losses[i], 0) = At(b.losses[i], 0)

\* C11: _determine_loss(loss_dict) fails with a KeyError if any key of loss_keys
\* is absent from loss_dict; with one key, present, it binds a copy of that loss;
\* with k >= 2 keys, all present, it binds a CompoundLoss named after the phase
\* whose children are the k losses in loss_keys order.
C11_DetermineLoss ==
    last.op = "_determine_loss" =>
        IF \E i \in 1..Len(tp.loss_keys) : tp.loss_keys[i] \notin DOMAIN last.loss_dict
        THEN last.err = "KeyError"
        ELSE /\ last.err = "ok"
             /\ IF Len(tp.loss_keys) = 1
                THEN IsCopy(tp.loss, last.loss_dict[tp.loss_keys[1]])
                ELSE /\ tp.loss.cls = "CompoundLoss"
                     /\ tp.name # "None" => tp.loss.name = tp.name
                     /\ Len(tp.loss.losses) = Len(tp.loss_keys)
                     /\ \A i \in 1..Len(tp.loss_keys) :
                            IsCopy(tp.loss.losses[i],
                                   last.loss_dict[tp.loss_keys[i]])

\* C12: a TrainingPhase constructed with explicit loss_weights stores them, one
\* constructed without has weights all ones, one per key; binding a phase of
\* k >= 2 keys against a mapping that has them all succeeds and gives a
\* CompoundLoss with the weights of the phase.
C12_LossWeights ==
    /\ (last.op = "TrainingPhase" /\ last.err = "ok") =>
          /\ tp.has_loss_weights
          /\ tp.loss_weights = IF last.loss_weights.none THEN Ones(Len(tp.loss_keys))
                               ELSE last.loss_weights.w
    /\ (last.op = "_determine_loss" /\ Len(tp.loss_keys) >= 2
          /\ \A i \in 1..Len(tp.loss_keys) : tp.loss_keys[i] \in DOMAIN last.loss_dict) =>
          /\ last.err = "ok"
          /\ tp.has_loss_weights
          /\ tp.loss.weights = tp.loss_weights

\* C13: the loss bound to a phase of training_phases, and every loss a bound
\* CompoundLoss holds, is an object of its own: none of them is an entry of the
\* losses mapping of the orchestrator, and no two phases share one.
C13_NoAliasing ==
    \A n \in Instances :
        LET ps == instances[n].training_phases
        IN  \A i \in 1..Len(ps) :
                /\ LossIds(ps[i].loss) \cap DictIds(Losses) = {}
                /\ Cardinality(LossIds(ps[i].loss)) = Size(ps[i].loss)
                /\ \A j \in 1..Len(ps) :
                       i # j => LossIds(ps[i].loss) \cap LossIds(ps[j].loss) = {}

C13_Witness ==
    /\ Len(instances[1].training_phases) = 2
    /\ instances[1].training_phases[1].loss.cls = "CompoundLoss"
    /\ instances[1].training_phases[2].loss.cls = "RelationLoss"

\* C14: add_training_phase appends the phase only after its loss is bound and,
\* for a relation-based or compound loss, validated against the sampling: a
\* failing call leaves training_phases unchanged, a successful one appends
\* exactly one phase at the end, and every phase of training_phases has a loss.
C14_AppendAfterValidation ==
    [][ /\ \A n \in Instances :
              \A i \in 1..Len(instances'[n].training_phases) :
                  loss_get(instances'[n].training_phases[i]).err = "ok"
        /\ last'.op = "add_training_phase" =>
              LET ps == instances[last'.inst].training_phases
                  new == instances'[last'.inst].training_phases
              IN  IF last'.err # "ok" THEN new = ps
                  ELSE /\ Len(new) = Len(ps) + 1
                       /\ SubSeq(new, 1, Len(ps)) = ps
                       /\ new[Len(new)].loss.cls \in {"RelationLoss", "CompoundLoss"}
                            => check_sampling_and_relations(
                                   new[Len(new)].loss, new[Len(new)].sampling,
                                   BatchRelations) = "ok" ]_vars

C14_Witness ==
    /\ last.op = "add_training_phase"
    /\ last.err = "UnsupportedConfigurationError"
    /\ Len(instances[1].training_phases) = 1

\* The fields of the training defaults a keyword of set_training_defaults names.
DefaultsFields ==
    {"epochs", "batch_size", "batches_per_epoch", "sampling", "edge_rel_key",
     "neg_sampling_rate", "loss_keys", "loss_weights", "optimizer",
     "report_interval"}

\* C15: set_training_defaults called with keyword arguments writes each given
\* value into the field of the defaults with the same name and leaves the other
\* fields unchanged (batches_per_epoch=b sets batches_per_epoch and not
\* batch_size; report_interval stays when it is not given), and a phase added
\* afterwards without arguments has the values of the defaults.
C15_SetTrainingDefaults ==
    [][ /\ (last'.op = "set_training_defaults" /\ last'.args.training_phase = Absent) =>
              LET a == last'.args
                  old == objects[instances[last'.inst].training_defaults]
                  new == objects'[instances'[last'.inst].training_defaults]
              IN  \A f \in DefaultsFields :
                      new[f] = IF a[f] # Absent THEN a[f][1] ELSE old[f]
        /\ (last'.op = "add_training_phase" /\ last'.err = "ok"
              /\ last'.args = NoArgs) =>
              LET new == instances'[last'.inst].training_phases
                  d == objects[instances[last'.inst].training_defaults]
              IN  \A f \in DefaultsFields : new[Len(new)][f] = d[f] ]_vars

\* C16: for two instances constructed without a training_defaults argument,
\* set_training_defaults on one leaves the training defaults of the other
\* unchanged.
C16_DefaultsNotShared ==
    [][ last'.op = "set_training_defaults" =>
            \A j \in Instances \ {last'.inst} :
                objects'[instances'[j].training_defaults]
                    = objects[instances[j].training_defaults] ]_vars

\* C17: an item of a NegSampledEdgeDataset with rate r, fetched at edge idx, has
\* r+1 row indices all equal to row[idx], r+1 column indices inside the index
\* range with the first equal to col[idx], labels 1 at position 0 and 0 at the
\* others, and an indices field that is the sorted duplicate-free union of the
\* row and column indices, whatever was drawn.
C17_ItemOfEdgeDataset ==
    last.op = "__getitem__" =>
        LET item == raw_batch[Len(raw_batch)]
            p == edge_dataset.p_ij
            n == edge_dataset.neg_sampling_rate + 1
        IN  /\ Len(item.row) = n /\ Len(item.col) = n /\ Len(item.rel) = n
            /\ \A k \in 1..n : item.row[k] = p.row[last.idx + 1]
            /\ \A k \in 1..n : item.col[k] \in 0..(p.shape - 1)
            /\ item.col[1] = p.col[last.idx + 1]
            /\ \A k \in 1..n : item.rel[k] = IF k = 1 THEN 1 ELSE 0
            /\ item.indices = Sorted(Range(item.row) \cup Range(item.col))

\* C17, amended: as above, but the indices field holds the entries of the
\* dataset's indices column at the sorted duplicate-free union of the row and
\* column indices; it is that union itself when the column is the one Dataset
\* adds (0..N-1).
C17_ItemOfEdgeDataset_Amended ==
    last.op = "__getitem__" =>
        LET item == raw_batch[Len(raw_batch)]
            p == edge_dataset.p_ij
            n == edge_dataset.neg_sampling_rate + 1
            union == Sorted(Range(item.row) \cup Range(item.col))
        IN  /\ Len(item.row) = n /\ Len(item.col) = n /\ Len(item.rel) = n
            /\ \A k \in 1..n : item.row[k] = p.row[last.idx + 1]
            /\ \A k \in 1..n : item.col[k] \in 0..(p.shape - 1)
            /\ item.col[1] = p.col[last.idx + 1]
            /\ \A k \in 1..n : item.rel[k] = IF k = 1 THEN 1 ELSE 0
            /\ Len(item.indices) = Len(union)
            /\ \A k \in 1..Len(union) :
                 item.indices[k] = edge_dataset.dataset.indices[union[k] + 1]
            /\ edge_dataset.dataset.indices = arange(p.shape)
                 => item.indices = union

\* An item fetched with a positive rate whose draw for column 0 was not the
\* actual neighbor, from a dataset with an indices column of its own.
C17_Witness ==
    /\ last.op = "__getitem__"
    /\ edge_dataset.neg_sampling_rate > 0
    /\ last.draw[1] # edge_dataset.p_ij.col[last.idx + 1]
    /\ edge_dataset.dataset.indices # arange(edge_dataset.p_ij.shape)
    /\ Len(raw_batch[Len(raw_batch)].indices) > 2

\* The indices occurring in the items of a batch.
ItemIndices(batch) == UNION { Range(batch[i].indices) : i \in 1..Len(batch) }

\* C18: collating b items of r+1 pairs each gives row, col and rel fields of
\* length b*(r+1), the items' fields one after the other in item order, and an
\* indices field holding every index of any item exactly once.
C18_CollatedBatch ==
    last.op = "_collate_edge_batch" =>
        LET b == Len(raw_batch)
            n == edge_dataset.neg_sampling_rate + 1
        IN  /\ \A f \in {"row", "col", "rel"} :
                 /\ Len(collated_batch[f]) = b * n
                 /\ \A i \in 1..b, k \in 1..n :
                      collated_batch[f][(i - 1) * n + k] = raw_batch[i][f][k]
            /\ Range(collated_batch.indices) = ItemIndices(raw_batch)
            /\ Len(collated_batch.indices) = Cardinality(ItemIndices(raw_batch))

\* A collated batch of two items with several pairs each, which share an index
\* and differ in another.
C18_Witness ==
    /\ last.op = "_collate_edge_batch"
    /\ Len(raw_batch) = 2
    /\ edge_dataset.neg_sampling_rate > 0
    /\ Range(raw_batch[1].indices) \cap Range(raw_batch[2].indices) # {}
    /\ Range(raw_batch[1].indices) # Range(raw_batch[2].indices)

\* C19: collation keeps the deduplicated indices in stable first-occurrence
\* order: the collated indices field lists the distinct indices in the order in
\* which each first appears in the concatenation of the items' indices fields.
C19_FirstOccurrenceOrder ==
    last.op = "_collate_edge_batch" =>
        collated_batch.indices = Distinct(Concat(raw_batch, "indices", 1))

\* C19, amended: collation puts the deduplicated indices in ascending order: the
\* collated indices field lists the distinct indices of the items' indices
\* fields from the smallest to the largest, wherever each first appears.
C19_AscendingOrder ==
    last.op = "_collate_edge_batch" =>
        collated_batch.indices = Sorted(ItemIndices(raw_batch))

\* A collated batch whose indices first appear in an order that is not
\* ascending.
C19_Witness ==
    /\ last.op = "_collate_edge_batch"
    /\ Distinct(Concat(raw_batch, "indices", 1)) # Sorted(ItemIndices(raw_batch))

\* The least whole number c with c * b >= a, for a >= 0 and b > 0.
Ceiling(a, b) == CHOOSE c \in 0..a : c * b >= a /\ (c = 0 \/ (c - 1) * b < a)

\* C20: a loader prepared for a negative_edge phase samples batch_size *
\* batches_per_epoch edges per epoch when batches_per_epoch is not -1, and the
\* epoch then has exactly batches_per_epoch batches; it samples
\* max(batch_size, ceil(dataset size / (neg_sampling_rate + 1))) edges when
\* batches_per_epoch is -1; and preparing it fails with KeyError when
\* edge_rel_key is not a key of the computed global relations.
C20_EdgesPerEpoch ==
    ( /\ last.op = "_prepare_loader"
      /\ last.phase.sampling = "negative_edge"
      /\ dataset_registered
      /\ global_relations_computed ) =>
        LET phase == last.phase
        IN  IF phase.edge_rel_key \notin DOMAIN global_relation_data
            THEN last.err = "KeyError"
            ELSE /\ last.err = "ok"
                 /\ phase.batches_per_epoch # -1 =>
                      /\ last.samples = phase.batch_size * phase.batches_per_epoch
                      /\ last.batches = phase.batches_per_epoch
                 /\ phase.batches_per_epoch = -1 =>
                      /\ last.samples >= phase.batch_size
                      /\ last.samples >= Ceiling(data["data"],
                                                 phase.neg_sampling_rate + 1)
                      /\ last.samples \in
                           { phase.batch_size,
                             Ceiling(data["data"], phase.neg_sampling_rate + 1) }

\* A loader prepared with batches_per_epoch given, where the dataset alone
\* would call for another number of edges.
C20_Witness ==
    /\ last.op = "_prepare_loader"
    /\ last.err = "ok"
    /\ last.phase.sampling = "negative_edge"
    /\ last.phase.batches_per_epoch > 1
    /\ last.phase.batch_size > 1
    /\ Ceiling(data["data"], last.phase.neg_sampling_rate + 1)
         \notin { last.phase.batch_size, last.samples }

RECURSIVE WeightedSum(_, _, _, _)
\* The sum over the first n children of weight times the child's value; none:
\* every weight is one.
WeightedSum(losses, weights, value, n) ==
    IF n = 0 THEN 0
    ELSE WeightedSum(losses, weights, value, n - 1)
         + (IF weights.none THEN 1 ELSE weights.w[n]) * value[losses[n].name]

\* C21: constructing a CompoundLoss fails with ValueError when the number of
\* weights differs from the number of child losses and uses all-ones weights
\* when the weights are absent; otherwise its value on a batch is the sum over
\* the children of weight times the child's value on that batch, every child
\* being evaluated exactly once.
C21_CompoundLoss ==
    LET n == Len(last.losses)
        given == last.loss_weights
        mismatch == ~given.none /\ Len(given.w) # n
    IN  /\ last.op = "CompoundLoss" =>
             /\ last.err = IF mismatch THEN "ValueError" ELSE "ok"
             /\ last.err = "ok" =>
                  /\ last.loss.losses = last.losses
                  /\ given.none => last.loss.weights = [i \in 1..n |-> 1]
                  /\ ~given.none => last.loss.weights = given.w
        /\ last.op = "forward" =>
             /\ ~mismatch
             /\ last.total_loss = WeightedSum(last.losses, given, last.value, n)
             /\ last.calls = [i \in 1..n |-> i]

\* A CompoundLoss of several children with weights given and not all equal,
\* called on a batch for which the children return different values.
C21_Witness ==
    /\ last.op = "forward"
    /\ Len(last.losses) > 1
    /\ ~last.loss_weights.none
    /\ last.loss_weights.w[1] # last.loss_weights.w[2]
    /\ last.losses[1] # last.losses[2]
    /\ last.value[last.losses[1].name] # last.value[last.losses[2].name]
    /\ last.total_loss > 0

\* C22: from_spec given a specification with dataset, relations and losses
\* that lacks the "training phases" key constructs an instance, which has an
\* empty training_phases list and is not trained.
C22_FromSpecWithoutPhases ==
    ( /\ last.op = "from_spec"
      /\ last.spec["dataset"] # Absent /\ last.spec["dataset"] # Given(<< >>)
      /\ last.spec["relations"] # Absent
      /\ last.spec["losses"] # Absent
      /\ last.spec["training phases"] = Absent ) =>
        /\ last.err = "ok"
        /\ training_phases = << >>
        /\ ~trained

\* C23: _dataset_from_spec applied to a non-empty list of dataset entries
\* produces a Dataset; with more than one entry the Dataset holds only the
\* last entry.
C23_DatasetFromSpec ==
    (last.op = "_dataset_from_spec" /\ last.spec # << >>) =>
        /\ last.err = "ok"
        /\ Len(last.items) = 1

\* Row j of the collated data field is the dataset's data at a position whose
\* entry in the indices column is the collated indices[j].
DataAligned ==
    /\ Len(collated_batch.data) = Len(collated_batch.indices)
    /\ \A j \in 1..Len(collated_batch.indices) :
         \E p \in 1..Len(edge_dataset.dataset.indices) :
            /\ edge_dataset.dataset.indices[p] = collated_batch.indices[j]
            /\ edge_dataset.dataset.data[p] = collated_batch.data[j]

\* C24: collation keeps every field other than row, col, rel and from_to_data
\* aligned with the deduplicated indices: row j of the field is the dataset's
\* value for the item whose index is the collated indices[j]; and every value
\* of the collated row or col field occurs in the collated indices field.
C24_FieldsAligned ==
    last.op = "_collate_edge_batch" =>
        /\ DataAligned
        /\ Range(collated_batch.row) \cup Range(collated_batch.col)
             \subseteq Range(collated_batch.indices)

\* C24, amended: row j of such a field is the dataset's value at a position
\* whose entry in the dataset's indices column is the collated indices[j]; and
\* for every value v of the collated row or col field, the entry of the
\* indices column at position v occurs in the collated indices field, so that
\* v itself does when the column is the one Dataset adds (0..N-1).
C24_FieldsAligned_Amended ==
    last.op = "_collate_edge_batch" =>
        /\ DataAligned
        /\ \A v \in Range(collated_batch.row) \cup Range(collated_batch.col) :
             edge_dataset.dataset.indices[v + 1] \in Range(collated_batch.indices)
        /\ edge_dataset.dataset.indices = arange(edge_dataset.p_ij.shape) =>
             /\ Range(collated_batch.row) \cup Range(collated_batch.col)
                  \subseteq Range(collated_batch.indices)
             /\ \A j \in 1..Len(collated_batch.indices) :
                  collated_batch.data[j] =
                      edge_dataset.dataset.data[collated_batch.indices[j] + 1]

\* A collated batch of a dataset with the default indices column, in which an
\* index recurs and the indices first appear in another order than ascending.
C24_Witness ==
    /\ last.op = "_collate_edge_batch"
    /\ edge_dataset.dataset.indices = arange(edge_dataset.p_ij.shape)
    /\ Len(collated_batch.indices) < Len(Concat(raw_batch, "indices", 1))
    /\ Len(collated_batch.indices) > 2
    /\ collated_batch.indices # Distinct(Concat(raw_batch, "indices", 1))

\* C25: every index a NegSampledEdgeDataset advertises is a valid item: access
\* at any idx below its length succeeds and returns the edge at position idx
\* of the coordinate arrays, and every index the weighted sampler can draw
\* (one per weight) is below its length: the length, the number of weights and
\* the number of stored edges agree.
C25_LengthIsNumberOfEdges ==
    /\ edge_dataset # NoEdgeDataset =>
         /\ edge_dataset_len(edge_dataset) = NumWeights(edge_dataset)
         /\ NumWeights(edge_dataset) = Len(edge_dataset.p_ij.col)
    /\ last.op = "subscript" =>
         /\ last.err = "ok"
         /\ last.done[1][1] = edge_dataset.p_ij.row[last.idx + 1]
         /\ last.done[2][1] = edge_dataset.p_ij.col[last.idx + 1]
    /\ last.op = "__getitem__" => last.idx < edge_dataset_len(edge_dataset)


\* C26: whenever the relations-computed flag is set, global_relation_data holds,
\* for every named global relation, the data computed from the data_key column
\* of the dataset that is registered now.
C26_RelationsOfCurrentDataset ==
    global_relations_computed =>
        \A i \in 1..Len(GlobalRelations) :
            /\ GlobalRelations[i].k \in DOMAIN global_relation_data
            /\ GlobalRelations[i].e \in DOMAIN data
            /\ global_relation_data[GlobalRelations[i].k]
                   = RelationData(data[GlobalRelations[i].e])

====
